---- MODULE Spec2Model ----
(***************************************************************************)
(* Trip-plan generation pipeline of the Tromsø trip planner:               *)
(*   - generateTripPlan (AI attempt, rule-based fallback),                 *)
(*   - callOpenAIForTripPlan / parseOpenAIResponse,                        *)
(*   - generatePlanWithRules / generateDayPlan,                            *)
(*   - POST /api/trips, GET /api/trips/[id], GET /api/trips/share/[id].    *)
(*   - getSeasonFromDate,                                                  *)
(*   - the rate-limiting middleware and checkInMemoryRateLimit.            *)
(*                                                                         *)
(* JavaScript values are modelled with their dynamic type: every value is  *)
(* a record tagged with t, so that typeof / Array.isArray / truthiness     *)
(* tests of the source can be evaluated as the source evaluates them.      *)
(***************************************************************************)
EXTENDS Integers, Sequences, FiniteSets, TLC

VARIABLES
    genPc,        \* position inside generateTripPlan: idle, start, ai_done, returned, threw
    genCaller,    \* who invoked generateTripPlan: "direct" or "POST"
    genInput,     \* { preferences, season, startDate } of the running invocation
    aiPlan,       \* value callOpenAIForTripPlan resolved to (plan or null)
    genResult,    \* value generateTripPlan resolved to
    aiCalls,      \* calls of callOpenAIForTripPlan in this invocation
    ruleCalls,    \* calls of generatePlanWithRules in this invocation
    provider,     \* what the completion provider did in this invocation
    post,         \* the POST /api/trips request in flight
    store,        \* rows of the TripPlan table, in insertion order
    now,          \* wall clock, milliseconds
    nextCuid,     \* source of fresh cuid() values
    resp,         \* the HTTP exchange completed last
    persistErrorsLogged, \* console.error lines of failed inserts
    aiTrace,      \* how callOpenAIForTripPlan completed in this invocation
    rules,        \* direct calls of generatePlanWithRules, two for one input
    limiter,      \* the rate-limiting middleware: inMemoryStore and its last answer
    resolved,     \* the last date handed to getSeasonFromDate and the season it gave
    outbound,     \* restaurants.ts: lastRequestTime, the calls inside enforceRateLimit, requests sent
    cache,        \* company-client.ts: companiesCache, the backend, the calls in flight
    hook,         \* useTripPlanner: the React state and the requests it has in flight
    curator,      \* a call of createTripplan and how it completed
    aurora,       \* the AuroraData handed to analyzeFallback and its analysis
    exported,     \* a rule-based plan handed to generateICS and its events
    parsers       \* a completion handed to one of the two response parsers

genVars  == <<genPc, genCaller, genInput, aiPlan, genResult, aiCalls, ruleCalls, provider,
              aiTrace>>
httpVars == <<post, store, now, nextCuid, resp, persistErrorsLogged>>
libVars  == <<outbound, cache, hook, curator, aurora, exported, parsers>>
sideVars == <<rules, limiter, resolved, libVars>>
coreVars == <<genVars, httpVars, rules, limiter, resolved>>
vars     == <<genPc, genCaller, genInput, aiPlan, genResult, aiCalls, ruleCalls, provider,
              post, store, now, nextCuid, resp, persistErrorsLogged, aiTrace, rules, limiter,
              resolved, outbound, cache, hook, curator, aurora, exported, parsers>>

-----------------------------------------------------------------------------
(* JavaScript values *)

JUndef   == [t |-> "undefined"]
JNull    == [t |-> "null"]
JStr(s)  == [t |-> "string", s |-> s]
JNum(n)  == [t |-> "number", n |-> n]
JBool(b) == [t |-> "boolean", b |-> b]
JArr(a)  == [t |-> "array", a |-> a]
JObj(o)  == [t |-> "object", o |-> o]

\* v.f for a value that is not null/undefined: a missing property reads undefined
Get(v, f) == IF v.t = "object" /\ f \in DOMAIN v.o THEN v.o[f] ELSE JUndef

\* ToBoolean: undefined, null, "", 0 and false are falsy; arrays and objects are truthy
Truthy(v) ==
    CASE v.t = "undefined" -> FALSE
      [] v.t = "null"      -> FALSE
      [] v.t = "string"    -> v.s # ""
      [] v.t = "number"    -> v.n # 0
      [] v.t = "boolean"   -> v.b
      [] OTHER             -> TRUE

IsArray(v)  == v.t = "array"
IsNumber(v) == v.t = "number"
IsString(v) == v.t = "string"

\* Array.prototype.join(sep) on an array of strings
RECURSIVE Join(_, _)
Join(a, sep) ==
    IF Len(a) = 0 THEN ""
    ELSE IF Len(a) = 1 THEN a[1].s
    ELSE a[1].s \o sep \o Join(Tail(a), sep)

\* Array.prototype.includes for an array of strings
Includes(arr, s) == \E i \in 1..Len(arr.a) : arr.a[i] = JStr(s)

\* Array.prototype.slice(0, n)
Slice0(a, n) == SubSeq(a, 1, IF Len(a) < n THEN Len(a) ELSE n)

-----------------------------------------------------------------------------
(* Dates.  A Date is Invalid Date or a calendar day; the server clock zone  *)
(* is UTC, so local and UTC calendar fields coincide.                       *)

InvalidDate == [valid |-> FALSE, y |-> 0, m |-> 0, d |-> 0]
MkDate(y, m, d) == [valid |-> TRUE, y |-> y, m |-> m, d |-> d]

IsLeap(y) == (y % 4 = 0 /\ y % 100 # 0) \/ y % 400 = 0

DaysInMonth(y, m) ==
    IF m = 2 THEN (IF IsLeap(y) THEN 29 ELSE 28)
    ELSE IF m \in {4, 6, 9, 11} THEN 30 ELSE 31

\* date.setDate(date.getDate() + i), i >= 0: overflow carries into month and year
RECURSIVE SetDatePlus(_, _)
SetDatePlus(date, i) ==
    IF ~date.valid THEN date
    ELSE IF date.d + i <= DaysInMonth(date.y, date.m)
         THEN MkDate(date.y, date.m, date.d + i)
         ELSE LET rest == date.d + i - DaysInMonth(date.y, date.m) - 1
                  first == IF date.m = 12 THEN MkDate(date.y + 1, 1, 1)
                                          ELSE MkDate(date.y, date.m + 1, 1)
              IN SetDatePlus(first, rest)

Pad2(n) == IF n < 10 THEN "0" \o ToString(n) ELSE ToString(n)

\* date.toISOString().split('T')[0]; callers test validity first (RangeError)
IsoDay(date) == ToString(date.y) \o "-" \o Pad2(date.m) \o "-" \o Pad2(date.d)

-----------------------------------------------------------------------------
(* Rule-based generator: generatePlanWithRules and its helpers *)

Seasons == {"summer", "winter", "polar-night"}

\* variant: the polar night is forgotten
IsDarkSeason_winterOnly(season) == season = "winter"

IsDarkSeason(season) == season = "winter" \/ season = "polar-night"

\* SEASONS[season].nameNo.toLowerCase()
SeasonNameNoLower(season) ==
    CASE season = "summer" -> "sommer"
      [] season = "winter" -> "vinter"
      [] OTHER             -> "morketid"

FjellheisenCost == 200
FjordCruiseCost == 800
CathedralCost   == 100
AuroraChaseCost == 1200
AuroraProbability == 65

MorningActivity ==
    JObj([time |-> JStr("10:00"), title |-> JStr("Fjellheisen Cable Car"),
          description |-> JStr("Start med panoramautsikt over Tromso fra 421 meter over havet"),
          location |-> JStr("Fjellheisen, Solliveien 12"),
          cost |-> JNum(FjellheisenCost), duration |-> JStr("1.5 timer"),
          bookingRequired |-> JBool(FALSE)])

AfternoonActivity(season) ==
    JObj([time |-> JStr("14:30"),
          title |-> JStr(IF season = "summer" THEN "Fjord Cruise" ELSE "Ishavskatedralen Visit"),
          description |-> JStr(IF season = "summer"
                               THEN "Opplev midnattsol fra fjorden med mulighet for havorn og hval"
                               ELSE "Besok den ikoniske Arktiske Katedralen"),
          location |-> JStr(IF season = "summer" THEN "Prostneset Havn" ELSE "Tromsdalen"),
          cost |-> JNum(IF season = "summer" THEN FjordCruiseCost ELSE CathedralCost),
          duration |-> JStr(IF season = "summer" THEN "3 timer" ELSE "1 time"),
          bookingRequired |-> JBool(season = "summer")])

EveningActivity ==
    JObj([time |-> JStr("21:00"), title |-> JStr("Northern Lights Chase"),
          description |-> JStr("Profesjonell guide tar deg til beste spots for nordlys"),
          location |-> JStr("Henting fra hotell"),
          cost |-> JNum(AuroraChaseCost), duration |-> JStr("4-6 timer"),
          bookingRequired |-> JBool(TRUE)])

\* variant: the cable car opens every day, not only the first
generateDayPlan_morningEveryDay(dayNumber, date, preferences, season) ==
    LET activities ==
            <<MorningActivity>>
            \o <<AfternoonActivity(season)>>
            \o (IF IsDarkSeason(season) THEN <<EveningActivity>> ELSE <<>>)
    IN JObj([day |-> JNum(dayNumber),
             date |-> JStr(IsoDay(date)),
             theme |-> JStr(IF dayNumber = 1 THEN "Velkommen til Tromso"
                                             ELSE "Dag " \o ToString(dayNumber)),
             activities |-> JArr(activities),
             dining |-> JObj([lunch |-> JStr("Fiskekompaniet"),
                              dinner |-> JStr("Emma's Drommekjokken")]),
             aurora |-> IF IsDarkSeason(season)
                        THEN JObj([probability |-> JNum(AuroraProbability),
                                   bestTime |-> JStr("22:00"),
                                   location |-> JStr("Utenfor byen (mork himmel)")])
                        ELSE JUndef])

generateDayPlan(dayNumber, date, preferences, season) ==
    LET isFirstDay == dayNumber = 1
        activities ==
            (IF isFirstDay THEN <<MorningActivity>> ELSE <<>>)
            \o <<AfternoonActivity(season)>>
            \o (IF IsDarkSeason(season) THEN <<EveningActivity>> ELSE <<>>)
    IN JObj([day |-> JNum(dayNumber),
             date |-> JStr(IsoDay(date)),
             theme |-> JStr(IF isFirstDay THEN "Velkommen til Tromso"
                                          ELSE "Dag " \o ToString(dayNumber)),
             activities |-> JArr(activities),
             dining |-> JObj([lunch |-> JStr("Fiskekompaniet"),
                              dinner |-> JStr("Emma's Drommekjokken")]),
             aurora |-> IF IsDarkSeason(season)
                        THEN JObj([probability |-> JNum(AuroraProbability),
                                   bestTime |-> JStr("22:00"),
                                   location |-> JStr("Utenfor byen (mork himmel)")])
                        ELSE JUndef])

generateSafetyNotes(season, preferences) ==
    <<JStr("Ha alltid med fulladet telefon"), JStr("Del reiserute med noen du stoler pa")>>
    \o (IF IsDarkSeason(season)
        THEN <<JStr("Kle deg i lag - temperaturen kan variere"),
               JStr("Pass pa glatte veier og fortau"),
               JStr("Morketid: bruk refleks og lykt nar du gar ute"),
               JStr("Sjekk vaervarsling for utendorsaktiviteter")>>
        ELSE <<>>)
    \o (IF season = "summer"
        THEN <<JStr("Midnattsol: bruk solbriller og solkrem"),
               JStr("Myggspray anbefales for fotturer"),
               JStr("Ha med varme klaer selv om det er sommer")>>
        ELSE <<>>)
    \o (IF Get(preferences, "transport") = JStr("car")
        THEN <<JStr("Vinterdekk er pakrevd november-april"),
               JStr("Kjor forsiktig i arktiske forhold")>>
        ELSE <<>>)

generatePackingList(season, preferences) ==
    <<JStr("Pass og ID"), JStr("Bankkort og litt kontanter"),
      JStr("Telefon og lader"), JStr("Kamera")>>
    \o (IF IsDarkSeason(season)
        THEN <<JStr("Varm vinterjakke"), JStr("Vintersko med godt grep"),
               JStr("Votter, lue, skjerf"), JStr("Termisk undertoy"),
               JStr("Varme sokker"), JStr("Solbriller (snorefleks)")>>
        ELSE <<>>)
    \o (IF season = "summer"
        THEN <<JStr("Vindtett jakke"), JStr("Gode tursko"), JStr("Solbriller og solkrem"),
               JStr("Myggspray"), JStr("Lette og varme klaer (lag pa lag)")>>
        ELSE <<>>)
    \o (IF Includes(Get(preferences, "interests"), "photography")
        THEN <<JStr("Tripod for kamera"), JStr("Ekstra batterier (kulde tapper batterier)")>>
        ELSE <<>>)
    \o (IF Includes(Get(preferences, "interests"), "hiking")
        THEN <<JStr("Tursko"), JStr("Sekk"), JStr("Matboks og drikkeflaske")>>
        ELSE <<>>)

\* activities.reduce((daySum, activity) => daySum + activity.cost, 0)
RECURSIVE SumActivityCosts(_)
SumActivityCosts(acts) ==
    IF Len(acts) = 0 THEN 0
    ELSE Get(acts[1], "cost").n + SumActivityCosts(Tail(acts))

\* days.reduce((sum, day) => sum + <day's activity costs>, 0)
RECURSIVE SumDayCosts(_)
SumDayCosts(days) ==
    IF Len(days) = 0 THEN 0
    ELSE SumActivityCosts(Get(days[1], "activities").a) + SumDayCosts(Tail(days))

\* variant: the loop advances startDate itself instead of a copy, so the
\* offsets add up (0, 1, 3, 6, ...)
RuleDays_noCopy(preferences, season, startDate) ==
    [k \in 1..Get(preferences, "days").n |->
        generateDayPlan(k, SetDatePlus(startDate, (k * (k - 1)) \div 2), preferences, season)]

\* the for loop of generatePlanWithRules: one DayPlan per i in 0..n-1, pushed in order
RuleDays(preferences, season, startDate) ==
    [k \in 1..Get(preferences, "days").n |->
        generateDayPlan(k, SetDatePlus(startDate, k - 1), preferences, season)]

Recommendations ==
    <<JStr("Book nordlys-turer minst 2-3 dager i forveien"),
      JStr("Sjekk vaermelding daglig - arktisk vaer kan endre seg raskt"),
      JStr("Last ned offline kart for Tromso-omradet"),
      JStr("Ta med kontanter - ikke alle steder tar kort")>>

\* variant: the days array lives at module level and keeps the days of the
\* call before
generatePlanWithRules_sharedDays(preferences, season, startDate) ==
    LET kept == IF rules.pc = "once" /\ ~rules.first.threw
                THEN Get(rules.first.value, "days").a ELSE <<>>
        days == kept \o RuleDays(preferences, season, startDate)
    IN JObj([summary |-> JStr("Din " \o ToString(Get(preferences, "days").n) \o "-dagers "
                              \o SeasonNameNoLower(season) \o "-opplevelse i Tromso kombinerer "
                              \o Join(Slice0(Get(preferences, "interests").a, 3), ", ")
                              \o " med lokal kultur og naturopplevelser."),
             days |-> JArr(days),
             totalCost |-> JNum(SumDayCosts(days)),
             safetyNotes |-> JArr(generateSafetyNotes(season, preferences)),
             packingList |-> JArr(generatePackingList(season, preferences)),
             recommendations |-> JArr(Recommendations)])

\* generatePlanWithRules(preferences, season, startDate, context)
generatePlanWithRules(preferences, season, startDate) ==
    LET days == RuleDays(preferences, season, startDate)
    IN JObj([summary |-> JStr("Din " \o ToString(Get(preferences, "days").n) \o "-dagers "
                              \o SeasonNameNoLower(season) \o "-opplevelse i Tromso kombinerer "
                              \o Join(Slice0(Get(preferences, "interests").a, 3), ", ")
                              \o " med lokal kultur og naturopplevelser."),
             days |-> JArr(days),
             totalCost |-> JNum(SumDayCosts(days)),
             safetyNotes |-> JArr(generateSafetyNotes(season, preferences)),
             packingList |-> JArr(generatePackingList(season, preferences)),
             recommendations |-> JArr(Recommendations)])

-----------------------------------------------------------------------------
(* AI path: callOpenAIForTripPlan and parseOpenAIResponse *)

\* A response text: empty, or plain / wrapped in a ``` fence; its content is
\* either not JSON or the JSON encoding of value.
EmptyText         == [form |-> "empty", json |-> FALSE, value |-> JNull]
PlainText(v)      == [form |-> "plain", json |-> TRUE, value |-> v]
FencedText(v)     == [form |-> "fenced", json |-> TRUE, value |-> v]
GarbageText       == [form |-> "plain", json |-> FALSE, value |-> JNull]
FencedGarbageText == [form |-> "fenced", json |-> FALSE, value |-> JNull]

\* responseText.match(/```(?:json)?\s*([\s\S]*?)\s*```/): the inner text of the fence
ExtractJsonString(text) ==
    IF text.form = "fenced" THEN [text EXCEPT !.form = "plain"] ELSE text

\* JSON.parse throws a SyntaxError on text that is not JSON (a fence is not JSON)
JsonParseThrows(text) == text.form # "plain" \/ ~text.json
JsonParse(text) == text.value

\* reading a property of null or undefined throws a TypeError
PropertyReadThrows(v) == v.t = "null" \/ v.t = "undefined"

\* the top-level test of parseOpenAIResponse (true = rejected)
InvalidTripPlanStructure(parsed) ==
    \/ ~Truthy(Get(parsed, "summary"))
    \/ ~IsArray(Get(parsed, "days"))
    \/ ~IsNumber(Get(parsed, "totalCost"))
    \/ ~IsArray(Get(parsed, "safetyNotes"))
    \/ ~IsArray(Get(parsed, "packingList"))
    \/ ~IsArray(Get(parsed, "recommendations"))

\* the per-day test of parseOpenAIResponse (true = rejected)
InvalidDayPlanStructure(day) ==
    \/ ~IsNumber(Get(day, "day"))
    \/ ~IsString(Get(day, "date"))
    \/ ~IsString(Get(day, "theme"))
    \/ ~IsArray(Get(day, "activities"))
    \/ ~Truthy(Get(day, "dining"))

\* How a call completes: it returns a value or it throws.  calls counts the
\* requests sent to the completion provider on the way.
Returned(v, calls) == [threw |-> FALSE, value |-> v, calls |-> calls]
Thrown(calls)      == [threw |-> TRUE, value |-> JUndef, calls |-> calls]

\* the try block of parseOpenAIResponse: it throws where JSON.parse throws and
\* where a property of null is read, returns null where a test fails
parseOpenAIResponseTry(responseText) ==
    LET jsonString == ExtractJsonString(responseText)
    IN IF JsonParseThrows(jsonString) THEN Thrown(0)
       ELSE LET parsed == JsonParse(jsonString)
            IN IF PropertyReadThrows(parsed) THEN Thrown(0)
               ELSE IF InvalidTripPlanStructure(parsed) THEN Returned(JNull, 0)
               ELSE LET days == Get(parsed, "days").a
                    IN IF \E i \in 1..Len(days) :
                              /\ \A j \in 1..(i - 1) : ~PropertyReadThrows(days[j])
                                                       /\ ~InvalidDayPlanStructure(days[j])
                              /\ PropertyReadThrows(days[i])
                       THEN Thrown(0)
                       ELSE IF \E i \in 1..Len(days) : InvalidDayPlanStructure(days[i])
                       THEN Returned(JNull, 0)
                       ELSE Returned(parsed, 0)

\* parseOpenAIResponse(responseText): TripPlan | null; the catch returns null
parseOpenAIResponse(responseText) ==
    LET tried == parseOpenAIResponseTry(responseText)
    IN IF tried.threw THEN Returned(JNull, 0) ELSE tried

\* What the environment does to one call: no credential, the request fails,
\* or the provider answers with a text.
NoKey          == [kind |-> "no_key", text |-> EmptyText]
ProviderFails  == [kind |-> "throws", text |-> EmptyText]
Answers(text)  == [kind |-> "text", text |-> text]

\* the try block of callOpenAIForTripPlan
callOpenAIForTripPlanTry(outcome) ==
    IF outcome.kind = "no_key" THEN Returned(JNull, 0)
    ELSE IF outcome.kind = "throws" THEN Thrown(1)
    ELSE IF outcome.text.form = "empty" THEN Returned(JNull, 1)
    ELSE LET parsed == parseOpenAIResponse(outcome.text)
         IN IF parsed.threw THEN Thrown(1) ELSE Returned(parsed.value, 1)

\* variant: the failure of the provider call is not caught
callOpenAIForTripPlan_uncaught(outcome) == callOpenAIForTripPlanTry(outcome)

\* callOpenAIForTripPlan(options): TripPlan | null; the catch returns null
callOpenAIForTripPlan(outcome) ==
    LET tried == callOpenAIForTripPlanTry(outcome)
    IN IF tried.threw THEN Returned(JNull, tried.calls) ELSE tried

-----------------------------------------------------------------------------
(* The environment: what the provider may answer, what callers may pass *)

MaxTripDays == 14
MaxAiDays   == 3      \* longest day list among the modelled provider answers

With(obj, f, v) == JObj([obj.o EXCEPT ![f] = v])

AiActivity ==
    JObj([time |-> JStr("09:00"), title |-> JStr("Polaria"),
          description |-> JStr("Arctic aquarium"), location |-> JStr("Hjalmar Johansens gate 12"),
          cost |-> JNum(500), duration |-> JStr("2 hours"), bookingRequired |-> JBool(FALSE)])

AiDay(k) ==
    JObj([day |-> JNum(k), date |-> JStr("2026-02-" \o Pad2(k)), theme |-> JStr("Arctic day"),
          activities |-> JArr(<<AiActivity>>),
          dining |-> JObj([lunch |-> JStr("Bardus"), dinner |-> JStr("Mathallen")])])

AiPlan(dayNumbers, totalCost) ==
    JObj([summary |-> JStr("A trip to Tromso"),
          days |-> JArr([i \in 1..Len(dayNumbers) |-> AiDay(dayNumbers[i])]),
          totalCost |-> JNum(totalCost),
          safetyNotes |-> JArr(<<JStr("Dress warmly")>>),
          packingList |-> JArr(<<JStr("Wool socks")>>),
          recommendations |-> JArr(<<JStr("Book early")>>)])

UpTo(n) == [i \in 1..n |-> i]

\* answers that pass the checks of parseOpenAIResponse
AcceptedAnswers ==
    {AiPlan(UpTo(n), 500 * n) : n \in 0..MaxAiDays}
    \cup {AiPlan(UpTo(n), 500 * n + 1) : n \in 1..MaxAiDays}
    \cup {AiPlan(<<1, 3>>, 1000), AiPlan(<<1, 1>>, 1000), AiPlan(<<0, 1>>, 1000),
          With(AiPlan(<<1, 2>>, 1000), "summary", JNum(42)),
          With(AiPlan(<<1, 2>>, 1000), "days",
               JArr(<<AiDay(1), With(AiDay(2), "dining", JStr("Mathallen"))>>))}

BasePlan == AiPlan(<<1, 2>>, 1000)

BrokenDays(day) == With(BasePlan, "days", JArr(<<AiDay(1), day>>))

\* answers that parse as JSON and fail one of the checks
RejectedAnswers ==
    {JNull, JNum(42), JArr(<<>>),
     With(BasePlan, "summary", JStr("")), With(BasePlan, "summary", JUndef),
     With(BasePlan, "days", JUndef), With(BasePlan, "days", JNum(2)),
     With(BasePlan, "totalCost", JStr("1000")), With(BasePlan, "totalCost", JUndef),
     With(BasePlan, "safetyNotes", JUndef), With(BasePlan, "packingList", JStr("socks")),
     With(BasePlan, "recommendations", JNull),
     BrokenDays(JNull), BrokenDays(JNum(2)),
     BrokenDays(With(AiDay(2), "day", JStr("2"))),
     BrokenDays(With(AiDay(2), "date", JNum(20260202))),
     BrokenDays(With(AiDay(2), "theme", JUndef)),
     BrokenDays(With(AiDay(2), "activities", JObj([first |-> AiActivity]))),
     BrokenDays(With(AiDay(2), "dining", JUndef)),
     BrokenDays(With(AiDay(2), "dining", JNull))}

ProviderOutcomes ==
    {NoKey, ProviderFails, Answers(EmptyText), Answers(GarbageText), Answers(FencedGarbageText)}
    \cup {Answers(PlainText(v)) : v \in AcceptedAnswers \cup RejectedAnswers}
    \cup {Answers(FencedText(v)) : v \in {AiPlan(UpTo(2), 1000), AiPlan(UpTo(1), 501),
                                          With(BasePlan, "days", JUndef)}}

\* the provider outcomes met by generations started from POST /api/trips
PostProviderOutcomes == {NoKey, Answers(PlainText(AiPlan(UpTo(2), 1000)))}

OutcomesFor(caller) == IF caller = "POST" THEN PostProviderOutcomes ELSE ProviderOutcomes

Preferences(days, interests, transport, startDate) ==
    JObj([days |-> days, budget |-> JStr("medium"), interests |-> interests,
          transport |-> transport, difficulty |-> JStr("moderate"), startDate |-> startDate])

InterestLists ==
    {JArr(<<JStr("aurora")>>),
     JArr(<<JStr("photography"), JStr("hiking"), JStr("dining"), JStr("culture")>>)}

\* well-formed TripPreferences: days in 1..14, interests not empty
ValidPreferences ==
    {Preferences(JNum(n), i, JStr(tr), JUndef) :
        n \in 1..MaxTripDays, i \in InterestLists, tr \in {"car", "no-car"}}

StartDates == {MkDate(2026, 2, 1), MkDate(2026, 6, 25), MkDate(2027, 12, 30),
               MkDate(2028, 2, 20)}

GenInputs ==
    [preferences : ValidPreferences, season : Seasons, startDate : StartDates \cup {InvalidDate}]

NoInput == [preferences |-> JUndef, season |-> "winter", startDate |-> InvalidDate]

-----------------------------------------------------------------------------
(* generateTripPlan, one action per await *)

\* variant: the null test before the return is missing
UseAiPlan_unchecked(plan) == TRUE

\* if (aiPlan) return aiPlan
UseAiPlan(plan) == Truthy(plan)

\* buildUserMessage formats startDate.toISOString(): RangeError on Invalid Date
BuildPromptsThrows(input) == ~input.startDate.valid

\* nothing was called yet
NoTrace == [threw |-> FALSE, providerCalls |-> 0]

GenInit ==
    /\ genPc = "idle"
    /\ genCaller = "direct"
    /\ genInput = NoInput
    /\ aiPlan = JNull
    /\ genResult = JUndef
    /\ aiCalls = 0
    /\ ruleCalls = 0
    /\ provider = NoKey
    /\ aiTrace = NoTrace

\* a caller other than the route invokes generateTripPlan(input)
GenInvoke ==
    /\ genPc = "idle"
    /\ post.pc = "idle"
    /\ \E input \in GenInputs : genInput' = input
    /\ genPc' = "start"
    /\ genCaller' = "direct"
    /\ aiPlan' = JNull
    /\ genResult' = JUndef
    /\ aiCalls' = 0
    /\ ruleCalls' = 0
    /\ provider' = NoKey
    /\ aiTrace' = NoTrace
    /\ UNCHANGED httpVars
    /\ UNCHANGED sideVars

\* prompts are built, then callOpenAIForTripPlan is awaited inside the try
GenAttemptAI ==
    /\ genPc = "start"
    /\ IF BuildPromptsThrows(genInput)
       THEN /\ genPc' = "threw"
            /\ UNCHANGED <<aiPlan, aiCalls, provider, aiTrace>>
       ELSE /\ \E o \in OutcomesFor(genCaller) :
                  LET completed == callOpenAIForTripPlan(o)
                  IN /\ provider' = o
                     /\ aiTrace' = [threw |-> completed.threw,
                                    providerCalls |-> completed.calls]
                     \* a throw lands in the catch of generateTripPlan: no plan
                     /\ aiPlan' = IF completed.threw THEN JNull ELSE completed.value
            /\ aiCalls' = aiCalls + 1
            /\ genPc' = "ai_done"
    /\ UNCHANGED <<genCaller, genInput, genResult, ruleCalls>>
    /\ UNCHANGED httpVars
    /\ UNCHANGED sideVars

\* the AI plan is returned as it is
GenReturnAI ==
    /\ genPc = "ai_done"
    /\ UseAiPlan(aiPlan)
    /\ genResult' = aiPlan
    /\ genPc' = "returned"
    /\ UNCHANGED <<genCaller, genInput, aiPlan, aiCalls, ruleCalls, provider, aiTrace>>
    /\ UNCHANGED httpVars
    /\ UNCHANGED sideVars

\* variant: a null answer is retried once before falling back
GenFallback_retry ==
    /\ genPc = "ai_done"
    /\ ~UseAiPlan(aiPlan)
    /\ IF aiCalls < 2
       THEN /\ genPc' = "start"
            /\ UNCHANGED <<genResult, ruleCalls>>
       ELSE /\ genResult' = generatePlanWithRules(genInput.preferences, genInput.season,
                                                  genInput.startDate)
            /\ ruleCalls' = ruleCalls + 1
            /\ genPc' = "returned"
    /\ UNCHANGED <<genCaller, genInput, aiPlan, aiCalls, provider, aiTrace>>
    /\ UNCHANGED httpVars
    /\ UNCHANGED sideVars

\* fallback: generatePlanWithRules
GenFallback ==
    /\ genPc = "ai_done"
    /\ ~UseAiPlan(aiPlan)
    /\ genResult' = generatePlanWithRules(genInput.preferences, genInput.season,
                                          genInput.startDate)
    /\ ruleCalls' = ruleCalls + 1
    /\ genPc' = "returned"
    /\ UNCHANGED <<genCaller, genInput, aiPlan, aiCalls, provider, aiTrace>>
    /\ UNCHANGED httpVars
    /\ UNCHANGED sideVars

\* the caller has taken the result; the invocation's locals are gone
GenLocalsDropped ==
    /\ genPc' = "idle"
    /\ genCaller' = "direct"
    /\ genInput' = NoInput
    /\ aiPlan' = JNull
    /\ genResult' = JUndef
    /\ aiCalls' = 0
    /\ ruleCalls' = 0
    /\ provider' = NoKey
    /\ aiTrace' = NoTrace

\* a direct caller takes the result
GenSettle ==
    /\ genPc \in {"returned", "threw"}
    /\ genCaller = "direct"
    /\ GenLocalsDropped
    /\ UNCHANGED httpVars
    /\ UNCHANGED sideVars

-----------------------------------------------------------------------------
(* HTTP surface: POST /api/trips, GET /api/trips/[id], GET /api/trips/share/[id] *)

SevenDaysMs == 7 * 24 * 60 * 60 * 1000
DayMs       == 24 * 60 * 60 * 1000
TickMs      == SevenDaysMs \div 2   \* the clock is observed every half week
MaxTicks    == 3                    \* the clock stops after this many ticks
MaxCuid     == 6                    \* cuid() values handed out before POSTs stop

ClockOrigin == MkDate(2026, 2, 27)  \* the calendar day at now = 0

\* new Date(): the calendar day of the wall clock
Today(ms) == SetDatePlus(ClockOrigin, ms \div DayMs)

KnownDays == {SetDatePlus(ClockOrigin, i) : i \in 0..31} \cup StartDates

\* new Date(text): the day a YYYY-MM-DD text names, Invalid Date for any other text
NewDate(text) ==
    IF \E d \in KnownDays : IsoDay(d) = text
    THEN CHOOSE d \in KnownDays : IsoDay(d) = text
    ELSE InvalidDate

\* variant: the zero-based getMonth() is compared with the calendar numbers
getSeasonFromDate_zeroBased(date) ==
    IF date.valid /\ (date.m - 1) \in 5..8 THEN "summer"
    ELSE IF date.valid /\ (date.m - 1) \in {11, 1} THEN "polar-night"
    ELSE "winter"

\* getSeasonFromDate(date): by calendar month
getSeasonFromDate(date) ==
    IF date.valid /\ date.m \in 5..8 THEN "summer"
    ELSE IF date.valid /\ date.m \in {11, 1} THEN "polar-night"
    ELSE "winter"

\* validateRequestBody({ preferences }, ['preferences'])
validateRequestBody(preferences) == preferences.t # "undefined"

\* the three validation blocks of POST (true = 400)
MissingRequiredFields(preferences) ==
    \/ ~Truthy(Get(preferences, "days"))
    \/ ~Truthy(Get(preferences, "budget"))
    \/ ~Truthy(Get(preferences, "interests"))

\* variant: the upper limit is not tested
DaysOutOfRange_noUpper(preferences) == Get(preferences, "days").n < 1

DaysOutOfRange(preferences) ==
    Get(preferences, "days").n < 1 \/ Get(preferences, "days").n > MaxTripDays

NoInterests(preferences) ==
    \/ ~IsArray(Get(preferences, "interests"))
    \/ Len(Get(preferences, "interests").a) = 0

\* status POST answers before generation is attempted; 0 = the request goes on
PostValidation(preferences) ==
    IF ~validateRequestBody(preferences) THEN 400
    ELSE IF PropertyReadThrows(preferences) THEN 500
    ELSE IF MissingRequiredFields(preferences) THEN 400
    ELSE IF DaysOutOfRange(preferences) THEN 400
    ELSE IF NoInterests(preferences) THEN 400
    ELSE 0

\* request bodies: preferences missing, null, or an object; days is a number or absent
PostStartDates == {JStr("2026-02-01"), JStr("not-a-date")}
GoodInterests  == JArr(<<JStr("aurora")>>)
PostPreferences ==
    {JUndef, JNull,
     With(Preferences(JNum(2), GoodInterests, JStr("car"), JUndef), "budget", JUndef)}
    \cup {Preferences(JNum(2), GoodInterests, JStr("car"), sd) : sd \in PostStartDates}
    \cup {Preferences(d, GoodInterests, JStr("car"), JStr("2026-02-01")) :
            d \in {JNum(0), JNum(MaxTripDays + 1)}}
    \cup {Preferences(JNum(2), i, JStr("car"), JStr("2026-02-01")) :
            i \in {JArr(<<>>), JStr("aurora")}}

NoRow == [id |-> 0, shareableId |-> 0, preferences |-> JUndef, plan |-> JUndef,
          expiresAt |-> 0, createdAt |-> 0]

Response(op, status, key, req, plan, row, persisted) ==
    [op |-> op, status |-> status, key |-> key, req |-> req, plan |-> plan,
     row |-> row, persisted |-> persisted, at |-> now]

NoResponse == [op |-> "none", status |-> 0, key |-> 0, req |-> JUndef, plan |-> JUndef,
               row |-> NoRow, persisted |-> FALSE, at |-> 0]

IdlePost == [pc |-> "idle", preferences |-> JUndef]

HttpInit ==
    /\ post = IdlePost
    /\ store = <<>>
    /\ now = 0
    /\ nextCuid = 1
    /\ resp = NoResponse
    /\ persistErrorsLogged = 0

\* POST up to the await of generateTripPlan: validation, start date, season
PostValidate ==
    /\ post.pc = "idle"
    /\ genPc = "idle"
    /\ \E preferences \in PostPreferences :
         LET status == PostValidation(preferences)
         IN IF status # 0
            THEN /\ resp' = Response("POST", status, 0, preferences, JUndef, NoRow, FALSE)
                 /\ UNCHANGED <<post, genVars>>
            ELSE /\ nextCuid + 3 <= MaxCuid
                 /\ LET startDate == IF Truthy(Get(preferences, "startDate"))
                                     THEN NewDate(Get(preferences, "startDate").s)
                                     ELSE Today(now)
                    IN genInput' = [preferences |-> preferences,
                                    season |-> getSeasonFromDate(startDate),
                                    startDate |-> startDate]
                 /\ post' = [pc |-> "generating", preferences |-> preferences]
                 /\ genPc' = "start"
                 /\ genCaller' = "POST"
                 /\ aiPlan' = JNull
                 /\ genResult' = JUndef
                 /\ aiCalls' = 0
                 /\ ruleCalls' = 0
                 /\ provider' = NoKey
                 /\ aiTrace' = NoTrace
                 /\ UNCHANGED resp
    /\ UNCHANGED <<store, now, nextCuid, persistErrorsLogged>>
    /\ UNCHANGED sideVars

\* variant: a draft row is written although generation failed
PostGenerationFailed_savesDraft ==
    /\ post.pc = "generating"
    /\ genPc = "threw"
    /\ genCaller = "POST"
    /\ store' = Append(store, [id |-> nextCuid, shareableId |-> nextCuid + 1,
                               preferences |-> post.preferences, plan |-> JUndef,
                               expiresAt |-> now + SevenDaysMs, createdAt |-> now])
    /\ nextCuid' = nextCuid + 2
    /\ resp' = Response("POST", 500, 0, post.preferences, JUndef, NoRow, FALSE)
    /\ post' = IdlePost
    /\ GenLocalsDropped
    /\ UNCHANGED <<now, persistErrorsLogged>>
    /\ UNCHANGED sideVars

\* generateTripPlan rejected: tagError('external'), rethrow, handleApiError -> 500
PostGenerationFailed ==
    /\ post.pc = "generating"
    /\ genPc = "threw"
    /\ genCaller = "POST"
    /\ resp' = Response("POST", 500, 0, post.preferences, JUndef, NoRow, FALSE)
    /\ post' = IdlePost
    /\ GenLocalsDropped
    /\ UNCHANGED <<store, now, nextCuid, persistErrorsLogged>>
    /\ UNCHANGED sideVars

\* variant: the lifetime is computed in seconds, not milliseconds
NewRow_seconds(id, shareableId, preferences, plan, clock) ==
    [id |-> id, shareableId |-> shareableId, preferences |-> preferences, plan |-> plan,
     expiresAt |-> clock + 7 * 24 * 60 * 60, createdAt |-> clock]

\* the row prisma.tripPlan.create is asked to insert
NewRow(id, shareableId, preferences, plan, clock) ==
    [id |-> id, shareableId |-> shareableId, preferences |-> preferences, plan |-> plan,
     expiresAt |-> clock + SevenDaysMs, createdAt |-> clock]

\* variant: a failed insert escapes to the outer catch (500, no plan)
PostPersist_failFast ==
    /\ post.pc = "generating"
    /\ genPc = "returned"
    /\ genCaller = "POST"
    /\ \E inserted \in BOOLEAN :
         IF inserted
         THEN LET row == [id |-> nextCuid, shareableId |-> nextCuid + 1,
                          preferences |-> post.preferences, plan |-> genResult,
                          expiresAt |-> now + SevenDaysMs, createdAt |-> now]
              IN /\ store' = Append(store, row)
                 /\ nextCuid' = nextCuid + 2
                 /\ resp' = Response("POST", 201, row.id, post.preferences, genResult, row, TRUE)
                 /\ UNCHANGED persistErrorsLogged
         ELSE /\ nextCuid' = nextCuid + 2
              /\ resp' = Response("POST", 500, 0, post.preferences, JUndef, NoRow, FALSE)
              /\ UNCHANGED <<store, persistErrorsLogged>>
    /\ post' = IdlePost
    /\ GenLocalsDropped
    /\ UNCHANGED now
    /\ UNCHANGED sideVars

\* POST after generateTripPlan resolved: the insert (it may fail) and the 201
PostPersist ==
    /\ post.pc = "generating"
    /\ genPc = "returned"
    /\ genCaller = "POST"
    /\ \E inserted \in BOOLEAN :
         IF inserted
         THEN LET row == NewRow(nextCuid, nextCuid + 1, post.preferences, genResult, now)
              IN /\ store' = Append(store, row)
                 /\ nextCuid' = nextCuid + 2
                 /\ resp' = Response("POST", 201, row.id, post.preferences, genResult, row, TRUE)
                 /\ UNCHANGED persistErrorsLogged
         ELSE LET temp == NewRow(nextCuid + 2, nextCuid + 3, post.preferences, genResult, now)
              IN /\ persistErrorsLogged' = persistErrorsLogged + 1
                 /\ nextCuid' = nextCuid + 4
                 /\ resp' = Response("POST", 201, temp.id, post.preferences, genResult, temp, FALSE)
                 /\ UNCHANGED store
    /\ post' = IdlePost
    /\ GenLocalsDropped
    /\ UNCHANGED now
    /\ UNCHANGED sideVars

Keys == 1..MaxCuid

\* prisma.tripPlan.findUnique({ where: { id } }): the row or none
FindById(id) ==
    IF \E i \in 1..Len(store) : store[i].id = id
    THEN store[CHOOSE i \in 1..Len(store) : store[i].id = id]
    ELSE NoRow

\* prisma.tripPlan.findUnique({ where: { shareableId } })
FindByShareableId(shareableId) ==
    IF \E i \in 1..Len(store) : store[i].shareableId = shareableId
    THEN store[CHOOSE i \in 1..Len(store) : store[i].shareableId = shareableId]
    ELSE NoRow

\* if (tripPlan.expiresAt < new Date())
IsExpired(row, clock) == row.expiresAt < clock

\* variant: the share route forgets the expiry test
ShareStatus_noExpiry(row, clock) ==
    IF row = NoRow THEN 404 ELSE 200

\* status of GET /api/trips/share/[shareableId] once the row was looked up
ShareStatus(row, clock) ==
    IF row = NoRow THEN 404
    ELSE IF IsExpired(row, clock) THEN 410
    ELSE 200

\* variant: the id route tests expiry like the share route
ByIdStatus_expiry(row, clock) ==
    IF row = NoRow THEN 404
    ELSE IF row.expiresAt < clock THEN 410
    ELSE 200

\* status of GET /api/trips/[id] once the row was looked up
ByIdStatus(row, clock) ==
    IF row = NoRow THEN 404 ELSE 200

\* variant: the share route deletes the row it finds expired
GetShared_purge ==
    /\ \E key \in Keys, queryOk \in BOOLEAN :
         IF queryOk
         THEN LET row == FindByShareableId(key)
                  status == ShareStatus(row, now)
              IN /\ resp' = Response("GET_share", status, key, JUndef, JUndef,
                                     IF status = 200 THEN row ELSE NoRow, FALSE)
                 /\ store' = IF status = 410
                             THEN SelectSeq(store, LAMBDA r : r.shareableId # key)
                             ELSE store
         ELSE /\ resp' = Response("GET_share", 500, key, JUndef, JUndef, NoRow, FALSE)
              /\ UNCHANGED store
    /\ UNCHANGED <<post, now, nextCuid, persistErrorsLogged>>
    /\ UNCHANGED genVars
    /\ UNCHANGED sideVars

\* GET /api/trips/share/[shareableId]; a failed query is answered 500
GetShared ==
    /\ \E key \in Keys, queryOk \in BOOLEAN :
         IF queryOk
         THEN LET row == FindByShareableId(key)
                  status == ShareStatus(row, now)
              IN resp' = Response("GET_share", status, key, JUndef, JUndef,
                                  IF status = 200 THEN row ELSE NoRow, FALSE)
         ELSE resp' = Response("GET_share", 500, key, JUndef, JUndef, NoRow, FALSE)
    /\ UNCHANGED <<post, store, now, nextCuid, persistErrorsLogged>>
    /\ UNCHANGED genVars
    /\ UNCHANGED sideVars

\* GET /api/trips/[id]; a failed query is answered 500
GetById ==
    /\ \E key \in Keys, queryOk \in BOOLEAN :
         IF queryOk
         THEN LET row == FindById(key)
                  status == ByIdStatus(row, now)
              IN resp' = Response("GET_id", status, key, JUndef, JUndef,
                                  IF status = 200 THEN row ELSE NoRow, FALSE)
         ELSE resp' = Response("GET_id", 500, key, JUndef, JUndef, NoRow, FALSE)
    /\ UNCHANGED <<post, store, now, nextCuid, persistErrorsLogged>>
    /\ UNCHANGED genVars
    /\ UNCHANGED sideVars

\* time passes
Tick ==
    /\ now < MaxTicks * TickMs
    /\ now' = now + TickMs
    /\ UNCHANGED <<post, store, nextCuid, resp, persistErrorsLogged>>
    /\ UNCHANGED genVars
    /\ UNCHANGED sideVars

-----------------------------------------------------------------------------
(* generatePlanWithRules called on its own, twice for the same input *)

\* date.toISOString() of generateDayPlan throws a RangeError on Invalid Date
generatePlanWithRulesThrows(preferences, season, startDate) ==
    Get(preferences, "days").n >= 1 /\ ~startDate.valid

\* how one call of generatePlanWithRules completes
RulesCompletion(input) ==
    IF generatePlanWithRulesThrows(input.preferences, input.season, input.startDate)
    THEN Thrown(0)
    ELSE Returned(generatePlanWithRules(input.preferences, input.season, input.startDate), 0)

NotCalled == Returned(JUndef, 0)

RulesIdle == [pc |-> "idle", input |-> NoInput, first |-> NotCalled, second |-> NotCalled]

RulesInit == rules = RulesIdle

\* a first call with some input
RulesCall ==
    /\ rules.pc = "idle"
    /\ \E input \in GenInputs :
         rules' = [pc |-> "once", input |-> input, first |-> RulesCompletion(input),
                   second |-> NotCalled]
    /\ UNCHANGED <<genVars, httpVars, limiter, resolved, libVars>>

\* a later call with the same input
RulesCallAgain ==
    /\ rules.pc = "once"
    /\ rules' = [rules EXCEPT !.pc = "twice", !.second = RulesCompletion(rules.input)]
    /\ UNCHANGED <<genVars, httpVars, limiter, resolved, libVars>>

\* both results were taken
RulesDone ==
    /\ rules.pc = "twice"
    /\ rules' = RulesIdle
    /\ UNCHANGED <<genVars, httpVars, limiter, resolved, libVars>>

-----------------------------------------------------------------------------
(* getSeasonFromDate applied to dates of every month *)

SeasonDates ==
    {MkDate(y, m, d) : y \in 2026..2028, m \in 1..12, d \in {1, 10, 20, 28}}
    \cup {InvalidDate}

NotResolved == [date |-> InvalidDate, season |-> "none"]

SeasonInit == resolved = NotResolved

\* const season = getSeasonFromDate(startDate)
ResolveSeason ==
    /\ \E date \in SeasonDates :
         resolved' = [date |-> date, season |-> getSeasonFromDate(date)]
    /\ UNCHANGED <<genVars, httpVars, rules, limiter, libVars>>

-----------------------------------------------------------------------------
(* Rate limiting: middleware, rateLimitRequest, checkInMemoryRateLimit.     *)
(* REDIS_URL is not configured, or the Redis check fails: both end in       *)
(* checkInMemoryRateLimit.                                                  *)

PostTripsLimit     == 10
GetTripsIdLimit    == 100
GetTripsShareLimit == 200
WebhooksLimit      == 1000
WindowSeconds      == 3600

HalfWindowMs   == (WindowSeconds * 1000) \div 2  \* the clock step of RateTick
MaxWindowTicks == 3       \* RateTick stops after this many half windows
MaxRequests    == 12      \* requests the middleware sees before traffic stops

\* method and pathname of a request, by the branch of the middleware they take
Routes == {"POST /api/trips", "GET /api/trips/[id]", "GET /api/trips/share/[shareableId]",
           "POST /api/webhooks/checkfront", "GET /api/trips"}

NoLimitConfig == [limit |-> 0, window |-> 0, name |-> "none"]

\* the if chain of the middleware over RATE_LIMIT_CONFIG; null when nothing matches
LimitConfigFor(route) ==
    CASE route = "POST /api/trips" ->
           [limit |-> PostTripsLimit, window |-> WindowSeconds, name |-> route]
      [] route = "GET /api/trips/[id]" ->
           [limit |-> GetTripsIdLimit, window |-> WindowSeconds, name |-> route]
      [] route = "GET /api/trips/share/[shareableId]" ->
           [limit |-> GetTripsShareLimit, window |-> WindowSeconds, name |-> route]
      [] route = "POST /api/webhooks/checkfront" ->
           [limit |-> WebhooksLimit, window |-> WindowSeconds, name |-> route]
      [] OTHER -> NoLimitConfig

\* getClientIp(request): the first x-forwarded-for entry, trimmed; an empty
\* first entry gives the empty string
ClientIps == {"203.0.113.7", ""}

\* inMemoryStore[identifier] when nothing was stored under the identifier
NoRecord == [count |-> 0, resetTime |-> 0]

\* variant: the window test uses >=, so a request at resetTime opens a new window
checkInMemoryRateLimit_earlyReset(memStore, identifier, limit, window, clock) ==
    LET record == memStore[identifier]
    IN IF record = NoRecord \/ clock >= record.resetTime
       THEN [store  |-> [memStore EXCEPT ![identifier] =
                            [count |-> 1, resetTime |-> clock + window * 1000]],
             result |-> [success |-> TRUE, remaining |-> limit - 1,
                         resetAt |-> clock + window * 1000, limit |-> limit]]
       ELSE LET count == record.count + 1
            IN [store  |-> [memStore EXCEPT ![identifier].count = count],
                result |-> [success |-> count <= limit,
                            remaining |-> IF count > limit THEN 0 ELSE limit - count,
                            resetAt |-> record.resetTime, limit |-> limit]]

\* checkInMemoryRateLimit(identifier, limit, window) over inMemoryStore at Date.now()
checkInMemoryRateLimit(memStore, identifier, limit, window, clock) ==
    LET record == memStore[identifier]
    IN IF record = NoRecord \/ clock > record.resetTime
       THEN [store  |-> [memStore EXCEPT ![identifier] =
                            [count |-> 1, resetTime |-> clock + window * 1000]],
             result |-> [success |-> TRUE, remaining |-> limit - 1,
                         resetAt |-> clock + window * 1000, limit |-> limit]]
       ELSE LET count == record.count + 1
            IN [store  |-> [memStore EXCEPT ![identifier].count = count],
                result |-> [success |-> count <= limit,
                            remaining |-> IF count > limit THEN 0 ELSE limit - count,
                            resetAt |-> record.resetTime, limit |-> limit]]

\* rateLimitRequest(identifier, limit, window) throws on an empty identifier
rateLimitRequestThrows(identifier) == identifier = ""

NoAnswer == [route |-> "none", clientIp |-> "", status |-> 0, remaining |-> 0,
             resetAt |-> 0, at |-> 0]

\* what the traffic so far was, for each client: when its current hour
\* started, the requests and the POST /api/trips requests it made in it
NoTraffic == [opened |-> 0, made |-> 0, posts |-> 0]

LimiterInit ==
    limiter = [inMemoryStore |-> [ip \in ClientIps |-> NoRecord],
               traffic       |-> [ip \in ClientIps |-> NoTraffic],
               served        |-> 0,
               last          |-> NoAnswer]

\* the hour a client's requests are counted in: it starts with the client's
\* first request and with its first request after the hour before has passed
Traffic(old, route, clock) ==
    LET fresh == old.made = 0 \/ clock > old.opened + WindowSeconds * 1000
        posts == IF route = "POST /api/trips" THEN 1 ELSE 0
    IN IF fresh THEN [opened |-> clock, made |-> 1, posts |-> posts]
       ELSE [opened |-> old.opened, made |-> old.made + 1, posts |-> old.posts + posts]

\* middleware(request): 200 stands for NextResponse.next()
Middleware ==
    /\ limiter.served < MaxRequests
    /\ \E route \in Routes, clientIp \in ClientIps :
         LET limitConfig == LimitConfigFor(route)
             answer(status, remaining, resetAt) ==
                 [route |-> route, clientIp |-> clientIp, status |-> status,
                  remaining |-> remaining, resetAt |-> resetAt, at |-> now]
             traffic == [limiter.traffic EXCEPT
                            ![clientIp] = Traffic(limiter.traffic[clientIp], route, now)]
         IN IF limitConfig = NoLimitConfig
            THEN limiter' = [limiter EXCEPT !.last = answer(200, 0, 0),
                                            !.served = limiter.served + 1]
            ELSE IF rateLimitRequestThrows(clientIp)
            THEN limiter' = [limiter EXCEPT !.last = answer(500, 0, 0),
                                            !.served = limiter.served + 1]
            ELSE LET checked == checkInMemoryRateLimit(limiter.inMemoryStore, clientIp,
                                                       limitConfig.limit, limitConfig.window, now)
                 IN limiter' = [inMemoryStore |-> checked.store,
                                traffic |-> traffic,
                                served |-> limiter.served + 1,
                                last |-> answer(IF checked.result.success THEN 200 ELSE 429,
                                                checked.result.remaining,
                                                checked.result.resetAt)]
    /\ UNCHANGED <<genVars, httpVars, rules, resolved, libVars>>

\* half a window passes
RateTick ==
    /\ now < MaxWindowTicks * HalfWindowMs
    /\ now' = now + HalfWindowMs
    /\ UNCHANGED <<post, store, nextCuid, resp, persistErrorsLogged>>
    /\ UNCHANGED <<genVars, rules, limiter, resolved, libVars>>

-----------------------------------------------------------------------------
(* Restaurant integrations: enforceRateLimit in front of every platform     *)
(* request.  A call that has to wait suspends at its await of setTimeout;   *)
(* other calls run meanwhile.                                               *)

REQUEST_DELAY_MS == 1000

BookingPlatforms == {"opentable", "quandoo"}

MaxOutboundCalls == 3
MaxOutboundTicks == 4

OutboundTickMs == REQUEST_DELAY_MS \div 2

\* Date.now() when the process takes its first call: far more than
\* REQUEST_DELAY_MS after the 0 that stands for "no request yet"
FirstCallClock == 2 * REQUEST_DELAY_MS

OutboundCalls == 1..MaxOutboundCalls

CallNotStarted == [pc |-> "idle", platform |-> "none", wakeAt |-> 0]

\* let lastRequestTime: Map<BookingPlatform, number> = new Map()
OutboundInit ==
    outbound = [lastRequestTime |-> [p \in BookingPlatforms |-> 0],
                calls |-> [c \in OutboundCalls |-> CallNotStarted],
                sent |-> <<>>,
                clock |-> FirstCallClock]

\* the request that follows `await enforceRateLimit(platform)`
SendRequest(o, platform) ==
    [o EXCEPT !.lastRequestTime[platform] = o.clock,
              !.sent = Append(o.sent, [platform |-> platform, at |-> o.clock])]

\* enforceRateLimit up to its await: the timer is set, or no wait is needed and
\* the caller's fetch follows in the same turn of the event loop
enforceRateLimit(o, c, platform) ==
    LET lastTime == o.lastRequestTime[platform]
        timeSinceLastRequest == o.clock - lastTime
    IN  IF timeSinceLastRequest < REQUEST_DELAY_MS
        THEN [o EXCEPT !.calls[c] =
                 [pc |-> "waiting", platform |-> platform,
                  wakeAt |-> o.clock + (REQUEST_DELAY_MS - timeSinceLastRequest)]]
        ELSE [SendRequest(o, platform) EXCEPT
                 !.calls[c] = [pc |-> "done", platform |-> platform, wakeAt |-> 0]]

notOutbound == <<coreVars, cache, hook, curator, aurora, exported, parsers>>

\* searchOpenTable / searchQuandoo / ... reaches `await enforceRateLimit(platform)`
OutboundCall ==
    /\ \E c \in OutboundCalls, platform \in BookingPlatforms :
         /\ outbound.calls[c].pc = "idle"
         /\ outbound' = enforceRateLimit(outbound, c, platform)
    /\ UNCHANGED notOutbound

\* the setTimeout of a waiting call fires: lastRequestTime.set(platform, Date.now()),
\* enforceRateLimit resolves and the caller's fetch follows
OutboundTimerFires ==
    /\ \E c \in OutboundCalls :
         /\ outbound.calls[c].pc = "waiting"
         /\ outbound.clock >= outbound.calls[c].wakeAt
         /\ outbound' = [SendRequest(outbound, outbound.calls[c].platform) EXCEPT
                            !.calls[c].pc = "done"]
    /\ UNCHANGED notOutbound

\* time passes; a timer that is due fires before the clock moves on
OutboundTick ==
    /\ outbound.clock < FirstCallClock + MaxOutboundTicks * OutboundTickMs
    /\ \A c \in OutboundCalls :
         outbound.calls[c].pc = "waiting" => outbound.clock < outbound.calls[c].wakeAt
    /\ outbound' = [outbound EXCEPT !.clock = @ + OutboundTickMs]
    /\ UNCHANGED notOutbound

-----------------------------------------------------------------------------
(* Company client: fetchCompanies, fetchCompaniesCached, clearCompaniesCache. *)
(* A call that misses the cache suspends at `await fetchCompanies(params)`;   *)
(* other calls and clearCompaniesCache run meanwhile.                         *)

CACHE_TTL == 5 * 60 * 1000

MaxCacheCalls     == 2
MaxCacheTicks     == 3
MaxClears         == 1

CacheTickMs == CACHE_TTL \div 2

\* params?: CompanyQueryParams
CompanyParams ==
    {JUndef, JObj([x \in {} |-> JUndef]), JObj([category |-> JStr("restaurant")])}

\* JSON.stringify(params || {})
cacheKey(params) ==
    IF ~Truthy(params) \/ ~Truthy(Get(params, "category")) THEN "{}"
    ELSE "{\"category\":\"" \o Get(params, "category").s \o "\"}"

CacheKeys == {cacheKey(params) : params \in CompanyParams}

\* what the backend holds for a query at some time
BackendCompanies(key, clock) == <<[query |-> key, asOf |-> clock]>>

\* fetchCompanies: a response that is not ok, a body without success, or a
\* rejected fetch all end in the catch, which returns []
fetchCompanies(backendUp, key, clock) ==
    IF backendUp THEN BackendCompanies(key, clock) ELSE <<>>

NoEntry == [present |-> FALSE]

\* companiesCache.set(cacheKey, { data, timestamp: Date.now() }); key, failed,
\* startEpoch and storedEpoch are history: the key the storing call used, whether
\* its fetch failed, and how many clearCompaniesCache calls preceded its start
\* and its store
CacheEntry(data, timestamp, key, failed, startEpoch, storedEpoch) ==
    [present |-> TRUE, data |-> data, timestamp |-> timestamp, key |-> key,
     failed |-> failed, startEpoch |-> startEpoch, storedEpoch |-> storedEpoch]

\* cached && Date.now() - cached.timestamp < CACHE_TTL
CachedAndFresh_inclusive(cached, clock) ==
    cached.present /\ clock - cached.timestamp <= CACHE_TTL

CachedAndFresh(cached, clock) ==
    cached.present /\ clock - cached.timestamp < CACHE_TTL

CacheCalls == 1..MaxCacheCalls

CacheCallIdle ==
    [pc |-> "idle", key |-> "", startedAt |-> 0, seen |-> NoEntry, fetched |-> FALSE,
     result |-> <<>>, epoch |-> 0, firstSinceClear |-> FALSE, backendUpAtStart |-> FALSE]

CacheInit ==
    cache = [companiesCache |-> [k \in CacheKeys |-> NoEntry],
             calls |-> [c \in CacheCalls |-> CacheCallIdle],
             backendUp |-> TRUE,
             fetches |-> 0,
             clears |-> 0,
             cleared |-> [k \in CacheKeys |-> FALSE],
             clock |-> CACHE_TTL]

notCache == <<coreVars, outbound, hook, curator, aurora, exported, parsers>>

\* fetchCompaniesCached up to its return of the cached data or its await
fetchCompaniesCached(k, c, params) ==
    LET key    == cacheKey(params)
        cached == k.companiesCache[key]
        call   == [CacheCallIdle EXCEPT !.key = key, !.startedAt = k.clock,
                       !.seen = cached, !.epoch = k.clears,
                       !.firstSinceClear = k.cleared[key],
                       !.backendUpAtStart = k.backendUp]
    IN  IF CachedAndFresh(cached, k.clock)
        THEN [k EXCEPT !.calls[c] = [call EXCEPT !.pc = "done", !.result = cached.data],
                       !.cleared[key] = FALSE]
        ELSE [k EXCEPT !.calls[c] = [call EXCEPT !.pc = "fetching", !.fetched = TRUE],
                       !.fetches = @ + 1,
                       !.cleared[key] = FALSE]

\* the rest of fetchCompaniesCached: the awaited data is stored and returned
StoreFetched_successOnly(k, c, data) ==
    LET call == k.calls[c]
    IN  [k EXCEPT !.calls[c] = [call EXCEPT !.pc = "done", !.result = data],
                  !.companiesCache[call.key] =
                      IF data = <<>> THEN @
                      ELSE CacheEntry(data, k.clock, call.key, ~k.backendUp,
                                      call.epoch, k.clears)]

StoreFetched(k, c, data) ==
    LET call == k.calls[c]
    IN  [k EXCEPT !.calls[c] = [call EXCEPT !.pc = "done", !.result = data],
                  !.companiesCache[call.key] =
                      CacheEntry(data, k.clock, call.key, ~k.backendUp,
                                 call.epoch, k.clears)]

\* companiesCache.clear()
clearCompaniesCache(k) ==
    [k EXCEPT !.companiesCache = [key \in CacheKeys |-> NoEntry],
              !.clears = @ + 1,
              !.cleared = [key \in CacheKeys |-> TRUE]]

\* a caller invokes fetchCompaniesCached(params)
CachedCall ==
    /\ \E c \in CacheCalls, params \in CompanyParams :
         /\ cache.calls[c].pc = "idle"
         /\ \A b \in CacheCalls : b < c => cache.calls[b].pc # "idle"
         /\ cache' = fetchCompaniesCached(cache, c, params)
    /\ UNCHANGED notCache

\* the backend request of a call settles
CachedFetchSettles ==
    /\ \E c \in CacheCalls :
         /\ cache.calls[c].pc = "fetching"
         /\ cache' = StoreFetched(cache, c,
                fetchCompanies(cache.backendUp, cache.calls[c].key, cache.clock))
    /\ UNCHANGED notCache

\* a caller invokes clearCompaniesCache()
ClearCache ==
    /\ cache.clears < MaxClears
    /\ cache' = clearCompaniesCache(cache)
    /\ UNCHANGED notCache

\* the backend goes down or comes back
BackendFlips ==
    /\ cache' = [cache EXCEPT !.backendUp = ~@]
    /\ UNCHANGED notCache

\* time passes
CacheTick ==
    /\ cache.clock < CACHE_TTL + MaxCacheTicks * CacheTickMs
    /\ cache' = [cache EXCEPT !.clock = @ + CacheTickMs]
    /\ UNCHANGED notCache

-----------------------------------------------------------------------------
(* Aurora analysis by rules: AuroraAnalyzer.analyzeFallback *)

\* data.combinedScore and data.kpIndex arrive as numbers with a fraction;
\* both are modelled in halves: a value h stands for h / 2
MaxCombinedScoreHalves == 200
MaxKpIndexHalves       == 18

\* Math.round of h / 2: halves round up
RoundHalves(h) == (h + 1) \div 2

AuroraInputs ==
    [combinedScore : 0..MaxCombinedScoreHalves, kpIndex : {0, 7, MaxKpIndexHalves}]

NotAnalyzed == [called |-> FALSE, data |-> [combinedScore |-> 0, kpIndex |-> 0],
                level |-> "low", score |-> 0, confidence |-> 0, recommendation |-> ""]

AuroraInit == aurora = NotAnalyzed

\* let level = 'low'; if (score >= 75) ... else if (score >= 50) ... else if (score >= 25) ...
analyzeFallbackLevel(score) ==
    IF score >= 75 THEN "extreme"
    ELSE IF score >= 50 THEN "high"
    ELSE IF score >= 25 THEN "medium"
    ELSE "low"

analyzeFallback(data) ==
    LET score == RoundHalves(data.combinedScore)
    IN  [called |-> TRUE, data |-> data,
         level |-> analyzeFallbackLevel(score),
         score |-> score,
         confidence |-> LET rounded == 80 + (data.kpIndex + 2) \div 4
                        IN  IF rounded > 100 THEN 100 ELSE rounded,
         recommendation |-> IF score >= 40 THEN "Good time to venture out for viewing"
                            ELSE "Consider indoor alternatives tonight"]

notAurora == <<coreVars, outbound, cache, hook, curator, exported, parsers>>

\* analyzeAuroraData falls back to the rules
AnalyzeFallback ==
    /\ \E data \in AuroraInputs : aurora' = analyzeFallback(data)
    /\ UNCHANGED notAurora

-----------------------------------------------------------------------------
(* The useTripPlanner hook: its state, and the POST requests generatePlan   *)
(* has in flight.  A user may invoke generatePlan again, or resetPlanner,   *)
(* before a request settles.                                                *)

MaxHookRequests == 2

\* DEFAULT_PREFERENCES
DEFAULT_PREFERENCES ==
    JObj([days |-> JNum(3), groupSize |-> JNum(2), budget |-> JStr("medium"),
          interests |-> JArr(<<>>), transport |-> JStr("car"),
          difficulty |-> JStr("moderate"), language |-> JStr("no")])

\* what the form passes to updatePreferences
PreferenceUpdates ==
    {[interests |-> JArr(<<JStr("aurora")>>)], [days |-> JNum(15)], [days |-> JNum(3)],
     [budget |-> JStr("high")]}

\* { ...prev.preferences, ...updates }
Merge(preferences, updates) ==
    JObj([f \in DOMAIN preferences.o |->
             IF f \in DOMAIN updates THEN updates[f] ELSE preferences.o[f]])

validatePreferences(prefs) ==
    LET days == Get(prefs, "days")
        interests == Get(prefs, "interests")
    IN  /\ Truthy(days) /\ days.n >= 1 /\ days.n <= 14
        /\ Truthy(Get(prefs, "budget"))
        /\ Truthy(interests) /\ Len(interests.a) # 0
        /\ Truthy(Get(prefs, "transport"))
        /\ Truthy(Get(prefs, "difficulty"))

HookInitialState ==
    [preferences |-> DEFAULT_PREFERENCES, plan |-> JNull, loading |-> FALSE,
     error |-> JNull, pending |-> 0, last |-> "useTripPlanner"]

\* pending counts the requests in flight and last names the callback that ran
\* last: both are history, the hook keeps neither
HookInit == hook = HookInitialState

notHook == <<coreVars, outbound, cache, curator, aurora, exported, parsers>>

\* updatePreferences(updates)
HookUpdatePreferences ==
    /\ \E updates \in PreferenceUpdates :
         hook' = [hook EXCEPT !.preferences = Merge(@, updates), !.error = JNull,
                              !.last = "updatePreferences"]
    /\ UNCHANGED notHook

\* generatePlan() up to its await of fetch
HookGeneratePlan ==
    /\ IF ~validatePreferences(hook.preferences)
       THEN hook' = [hook EXCEPT
                        !.error = JStr("Vennligst fyll ut alle obligatoriske felter"),
                        !.last = "generatePlan"]
       ELSE /\ hook.pending < MaxHookRequests
            /\ hook' = [hook EXCEPT !.loading = TRUE, !.error = JNull,
                                    !.pending = @ + 1, !.last = "generatePlan"]
    /\ UNCHANGED notHook

\* a request is answered 201 and its body is read
HookRequestSucceeds ==
    /\ hook.pending > 0
    /\ hook' = [hook EXCEPT !.plan = JStr("data.plan"), !.loading = FALSE,
                            !.error = JNull, !.pending = @ - 1, !.last = "settled"]
    /\ UNCHANGED notHook

\* fetch rejects, the answer is not ok, or its body cannot be read
HookRequestFails ==
    /\ hook.pending > 0
    /\ hook' = [hook EXCEPT !.loading = FALSE, !.error = JStr("HTTP 500"),
                            !.pending = @ - 1, !.last = "settled"]
    /\ UNCHANGED notHook

\* resetPlanner()
HookResetPlanner ==
    /\ hook' = [HookInitialState EXCEPT !.pending = hook.pending, !.last = "resetPlanner"]
    /\ UNCHANGED notHook

-----------------------------------------------------------------------------
(* Calendar export: generateICS and calculateEndTime *)

CharAt(s, i) == SubSeq(s, i, i)

Digits == {"0", "1", "2", "3", "4", "5", "6", "7", "8", "9"}

DigitValue(ch) ==
    CASE ch = "0" -> 0 [] ch = "1" -> 1 [] ch = "2" -> 2 [] ch = "3" -> 3 [] ch = "4" -> 4
      [] ch = "5" -> 5 [] ch = "6" -> 6 [] ch = "7" -> 7 [] ch = "8" -> 8 [] OTHER -> 9

\* Number(s) for a string of digits
RECURSIVE NumberOfDigits(_)
NumberOfDigits(s) ==
    IF s = "" THEN 0
    ELSE NumberOfDigits(SubSeq(s, 1, Len(s) - 1)) * 10 + DigitValue(CharAt(s, Len(s)))

\* the index after the run of characters of `chars` that starts at i
RECURSIVE RunEnd(_, _, _)
RunEnd(s, i, chars) ==
    IF i <= Len(s) /\ CharAt(s, i) \in chars THEN RunEnd(s, i + 1, chars) ELSE i

\* duration.match(/[\d.]+/)?.[0] || '1'
FirstNumberText(duration) ==
    LET starts == {i \in 1..Len(duration) : CharAt(duration, i) \in Digits \cup {"."}}
    IN  IF starts = {} THEN "1"
        ELSE LET first == CHOOSE i \in starts : \A j \in starts : i <= j
             IN  SubSeq(duration, first, RunEnd(duration, first, Digits \cup {"."}) - 1)

RECURSIVE PowerOfTen(_)
PowerOfTen(k) == IF k = 0 THEN 1 ELSE 10 * PowerOfTen(k - 1)

\* parseFloat of a text of digits and dots: the digits before the first dot and
\* the digits that follow it, as a fraction num / den; NaN without any digit
parseFloat(text) ==
    LET intEnd   == RunEnd(text, 1, Digits)
        hasDot   == intEnd <= Len(text) /\ CharAt(text, intEnd) = "."
        fracEnd  == IF hasDot THEN RunEnd(text, intEnd + 1, Digits) ELSE intEnd
        intText  == SubSeq(text, 1, intEnd - 1)
        fracText == IF hasDot THEN SubSeq(text, intEnd + 1, fracEnd - 1) ELSE ""
    IN  IF intText = "" /\ fracText = "" THEN [nan |-> TRUE, num |-> 0, den |-> 1]
        ELSE [nan |-> FALSE,
              num |-> NumberOfDigits(intText) * PowerOfTen(Len(fracText))
                      + NumberOfDigits(fracText),
              den |-> PowerOfTen(Len(fracText))]

\* startTime.split(':').map(Number) for a time HH:MM
SplitTime(time) ==
    LET colon == RunEnd(time, 1, Digits)
    IN  [hour   |-> NumberOfDigits(SubSeq(time, 1, colon - 1)),
         minute |-> NumberOfDigits(SubSeq(time, colon + 1, Len(time)))]

\* totalMinutes is kept as the fraction total / den
calculateEndTime(startTime, duration) ==
    LET hours == parseFloat(FirstNumberText(duration))
        start == SplitTime(startTime)
        total == (start.hour * 60 + start.minute) * hours.den + hours.num * 60
    IN  IF hours.nan THEN "NaN:NaN"
        ELSE Pad2((total \div (60 * hours.den)) % 24)
             \o ":" \o Pad2((total % (60 * hours.den)) \div hours.den)

\* new Date(`${day.date}T${time}:00`): the calendar day and the minute of it
NewDateTime(date, time) ==
    [day |-> MkDate(NumberOfDigits(SubSeq(date, 1, 4)), NumberOfDigits(SubSeq(date, 6, 7)),
                    NumberOfDigits(SubSeq(date, 9, 10))),
     minute |-> SplitTime(time).hour * 60 + SplitTime(time).minute]

\* date.toISOString() without dashes, colons and milliseconds
formatICSDate(dateTime) ==
    ToString(dateTime.day.y) \o Pad2(dateTime.day.m) \o Pad2(dateTime.day.d) \o "T"
    \o Pad2(dateTime.minute \div 60) \o Pad2(dateTime.minute % 60) \o "00Z"

\* the VEVENT of one activity; startDate and endDate are the Date objects
\* that DTSTART and DTEND are formatted from
IcsEvent(day, activity) ==
    LET startDate == NewDateTime(Get(day, "date").s, Get(activity, "time").s)
        endTime   == calculateEndTime(Get(activity, "time").s, Get(activity, "duration").s)
        endDate   == NewDateTime(Get(day, "date").s, endTime)
    IN  [summary |-> Get(activity, "title").s,
         startDate |-> startDate, endDate |-> endDate,
         DTSTART |-> formatICSDate(startDate), DTEND |-> formatICSDate(endDate)]

\* plan.days.flatMap(day => day.activities.map(...))
RECURSIVE FlatMapEvents(_)
FlatMapEvents(days) ==
    IF days = <<>> THEN <<>>
    ELSE [i \in 1..Len(Get(Head(days), "activities").a) |->
             IcsEvent(Head(days), Get(Head(days), "activities").a[i])]
         \o FlatMapEvents(Tail(days))

generateICS(plan) == FlatMapEvents(Get(plan, "days").a)

NotExported == [called |-> FALSE, input |-> NoInput, events |-> <<>>]

ExportInit == exported = NotExported

notExported == <<coreVars, outbound, cache, hook, curator, aurora, parsers>>

\* a plan of the rule-based generator is exported as a calendar
ExportRulePlan ==
    /\ ~exported.called
    /\ \E input \in GenInputs :
         /\ input.startDate.valid
         /\ exported' = [called |-> TRUE, input |-> input,
                         events |-> generateICS(generatePlanWithRules(
                                       input.preferences, input.season, input.startDate))]
    /\ UNCHANGED notExported

-----------------------------------------------------------------------------
(* TripplanCurator: parseResponse, plan, planFallback, and createTripplan *)

\* variant: the text is kept whole
Substring_whole(v, n) == v

\* v.substring(0, n) of a string
Substring(v, n) == JStr(SubSeq(v.s, 1, IF Len(v.s) < n THEN Len(v.s) ELSE n))

\* v.substring is not a function unless v is a string
SubstringThrows(v) == v.t # "string"

\* v?.substring(0, n)
OptSubstring(v, n) == IF v.t \in {"undefined", "null"} THEN JUndef ELSE Substring(v, n)
OptSubstringThrows(v) == v.t \notin {"undefined", "null", "string"}

\* v || fallback
OrDefault(v, fallback) == IF Truthy(v) THEN v ELSE JStr(fallback)

\* String(h) of a string or a number
StringOf(h) == IF h.t = "string" THEN h ELSE JStr(ToString(h.n))

\* (list || []).slice(0, 5).map(h => String(h).substring(0, n))
ClampList(list, n) ==
    IF ~Truthy(list) THEN JArr(<<>>)
    ELSE JArr([i \in 1..Len(Slice0(list.a, 5)) |-> Substring(StringOf(list.a[i]), n)])

\* slice or map is missing on a truthy value that is not an array
ListThrows(list) == Truthy(list) /\ ~IsArray(list)

\* one entry of day.activities
ClampActivity(a) ==
    JObj([time     |-> OrDefault(OptSubstring(Get(a, "time"), 20), "09:00"),
          activity |-> OrDefault(OptSubstring(Get(a, "activity"), 100), "Activity"),
          notes    |-> OrDefault(OptSubstring(Get(a, "notes"), 200), "")])

ActivityThrows(a) ==
    \/ PropertyReadThrows(a)
    \/ OptSubstringThrows(Get(a, "time"))
    \/ OptSubstringThrows(Get(a, "activity"))
    \/ OptSubstringThrows(Get(a, "notes"))

\* one entry of json.days
ClampDay(day) ==
    LET activities == IF Truthy(Get(day, "activities"))
                      THEN Slice0(Get(day, "activities").a, 5) ELSE <<>>
    IN  JObj([date |-> Get(day, "date"),
              theme |-> OptSubstring(Get(day, "theme"), 50),
              activities |-> JArr([i \in 1..Len(activities) |-> ClampActivity(activities[i])]),
              auroraTime |-> OptSubstring(Get(day, "auroraTime"), 20),
              auroraViewing |-> JBool(Get(day, "auroraViewing") = JBool(TRUE)),
              totalCost |-> Get(day, "totalCost"),
              dayRating |-> Get(day, "dayRating")])

DayThrows(day) ==
    \/ PropertyReadThrows(day)
    \/ OptSubstringThrows(Get(day, "theme"))
    \/ ListThrows(Get(day, "activities"))
    \/ /\ IsArray(Get(day, "activities"))
       /\ \E i \in 1..Len(Slice0(Get(day, "activities").a, 5)) :
              ActivityThrows(Get(day, "activities").a[i])
    \/ OptSubstringThrows(Get(day, "auroraTime"))

\* content.match(/\{[\s\S]*\}/): the text from the first { to the last };
\* a text without JSON is taken to hold no braces
HasJsonMatch(content) ==
    /\ content.json
    /\ \/ content.value.t = "object"
       \/ content.value.t = "array" /\ \E i \in 1..Len(content.value.a) :
                                          content.value.a[i].t = "object"

\* JSON.parse(jsonMatch[0]) throws when the braces span more than one value
JsonMatchParseThrows(content) == content.value.t = "array" /\ Len(content.value.a) > 1

JsonMatchParse(content) ==
    IF content.value.t = "array" THEN content.value.a[1] ELSE content.value

\* the test before the plan is built (true = rejected)
InvalidResponseStructure(json) ==
    \/ ~Truthy(Get(json, "title"))
    \/ ~Truthy(Get(json, "summary"))
    \/ ~IsArray(Get(json, "days"))
    \/ Len(Get(json, "days").a) = 0

\* the try block of TripplanCurator.parseResponse
parseResponseTry(content) ==
    IF ~HasJsonMatch(content) THEN Returned(JNull, 0)
    ELSE IF JsonMatchParseThrows(content) THEN Thrown(0)
    ELSE LET json == JsonMatchParse(content)
             days == Slice0(Get(json, "days").a, 30)
         IN  IF InvalidResponseStructure(json) THEN Returned(JNull, 0)
             ELSE IF \/ SubstringThrows(Get(json, "title"))
                     \/ SubstringThrows(Get(json, "summary"))
                     \/ \E i \in 1..Len(days) : DayThrows(days[i])
                     \/ ListThrows(Get(json, "highlights"))
                     \/ ListThrows(Get(json, "recommendations"))
                     \/ ListThrows(Get(json, "importantNotes"))
                  THEN Thrown(0)
             ELSE Returned(
                    JObj([title   |-> Substring(Get(json, "title"), 100),
                          summary |-> Substring(Get(json, "summary"), 300),
                          days    |-> JArr([i \in 1..Len(days) |-> ClampDay(days[i])]),
                          highlights      |-> ClampList(Get(json, "highlights"), 100),
                          recommendations |-> ClampList(Get(json, "recommendations"), 150),
                          importantNotes  |-> ClampList(Get(json, "importantNotes"), 150),
                          totalCost |-> Get(json, "totalCost")]), 0)

\* TripplanCurator.parseResponse(content): TripPlan | null; the catch returns null
parseResponse(content) ==
    LET tried == parseResponseTry(content)
    IN  IF tried.threw THEN Returned(JNull, 0) ELSE tried

\* a text of n characters
RECURSIVE LongText(_)
LongText(n) ==
    IF n = 0 THEN ""
    ELSE IF n % 2 = 1 THEN "x" \o LongText(n - 1)
    ELSE LET half == LongText(n \div 2) IN half \o half

\* longest text a completion carries here, one more than the largest maximum
MaxTextLength == 301

CuratorActivity(notes) ==
    JObj([time |-> JStr("09:00-11:00"), activity |-> JStr("Polaria"), notes |-> notes])

CuratorDay(theme, notes) ==
    JObj([date |-> JStr("2026-02-01"), theme |-> theme,
          activities |-> JArr(<<CuratorActivity(notes)>>),
          auroraTime |-> JStr("21:00-02:00"), auroraViewing |-> JBool(TRUE),
          totalCost |-> JNum(1500), dayRating |-> JNum(8)])

CuratorJson(title, summary, days, highlights) ==
    JObj([title |-> title, summary |-> summary, days |-> days, highlights |-> highlights,
          recommendations |-> JArr(<<JStr("Book tours early")>>),
          importantNotes |-> JArr(<<JStr("Weather dependent")>>),
          totalCost |-> JNum(5000)])

CuratorTitles ==
    {JStr("3-Day Arctic Expedition"), JStr(LongText(100)), JStr(LongText(101)), JNum(5), JUndef}

CuratorSummaries == {JStr("A short trip"), JStr(LongText(MaxTextLength))}

CuratorDayLists ==
    {JArr(<<CuratorDay(JStr("Aurora"), JStr("Bus 42"))>>),
     JArr(<<CuratorDay(JStr(LongText(51)), JStr(LongText(201)))>>),
     JArr(<<CuratorDay(JUndef, JUndef)>>),
     JArr(<<CuratorDay(JNum(7), JStr("Bus 42"))>>),
     JArr(<<JNull>>), JArr(<<>>)}

CuratorHighlights ==
    {JUndef, JStr("aurora"),
     JArr(<<JStr(LongText(101)), JNum(12)>>),
     JArr([i \in 1..6 |-> JStr("Highlight " \o ToString(i))])}

CuratorBaseJson ==
    CuratorJson(JStr("3-Day Arctic Expedition"), JStr("A short trip"),
                JArr(<<CuratorDay(JStr("Aurora"), JStr("Bus 42"))>>), JUndef)

\* what AIResponse.content may hold
CuratorContents ==
    {PlainText(CuratorJson(t, s, d, h)) :
        t \in CuratorTitles, s \in CuratorSummaries, d \in CuratorDayLists,
        h \in CuratorHighlights}
    \cup {FencedText(CuratorBaseJson), GarbageText, FencedGarbageText,
          PlainText(JArr(<<CuratorBaseJson>>)),
          PlainText(JArr(<<CuratorBaseJson, CuratorBaseJson>>)), PlainText(JNum(42))}

\* completions handed to parseOpenAIResponse, some with oversized texts
OversizedAnswers ==
    {With(BasePlan, "summary", JStr(LongText(MaxTextLength))),
     With(BasePlan, "days",
          JArr(<<With(AiDay(1), "theme", JStr(LongText(51))),
                 With(AiDay(2), "activities",
                      JArr(<<With(AiActivity, "description",
                                  JStr(LongText(MaxTextLength)))>>))>>))}

OpenAiTexts ==
    {PlainText(v) : v \in AcceptedAnswers \cup RejectedAnswers \cup OversizedAnswers}
    \cup {FencedText(v) : v \in OversizedAnswers} \cup {GarbageText}

NotParsed == [parser |-> "none", content |-> EmptyText, result |-> JNull]

ParsersInit == parsers = NotParsed

notParsers == <<coreVars, outbound, cache, hook, curator, aurora, exported>>

\* TripplanCurator.plan hands the content of the AI response to parseResponse
ParseCuratorResponse ==
    /\ parsers.parser = "none"
    /\ \E content \in CuratorContents :
         parsers' = [parser |-> "parseResponse", content |-> content,
                     result |-> parseResponse(content).value]
    /\ UNCHANGED notParsers

\* callOpenAIForTripPlan hands the completion text to parseOpenAIResponse
ParseOpenAIResponse ==
    /\ parsers.parser = "none"
    /\ \E responseText \in OpenAiTexts :
         parsers' = [parser |-> "parseOpenAIResponse", content |-> responseText,
                     result |-> parseOpenAIResponse(responseText).value]
    /\ UNCHANGED notParsers

\* entries of HARDCODED_ACTIVITIES used by the fallback
HardcodedActivity(id) ==
    CASE id = "d1" -> JObj([id |-> JStr("d1"), title |-> JStr("Tromsobadet Swimming Pool"),
                            duration |-> JNum(120), cost |-> JNum(150)])
      [] id = "f1" -> JObj([id |-> JStr("f1"), title |-> JStr("Troll Restaurant"),
                            duration |-> JNum(90), cost |-> JNum(400)])
      [] id = "d2" -> JObj([id |-> JStr("d2"), title |-> JStr("Arctic Cathedral"),
                            duration |-> JNum(60), cost |-> JNum(70)])
      [] OTHER     -> JObj([id |-> JStr("a1"), title |-> JStr("Telegrafbukta Aurora Viewing"),
                            duration |-> JNum(180), cost |-> JUndef])

FallbackSlot(time, id) ==
    JObj([time |-> JStr(time), activity |-> HardcodedActivity(id), notes |-> JStr("")])

\* new Date(request.startDate || new Date())
FallbackStartDate(request, today) ==
    IF Truthy(request.startDate) THEN NewDate(request.startDate.s) ELSE today

\* date.toISOString() in the loop throws a RangeError on Invalid Date
planFallbackThrows(request, today) ==
    request.duration >= 1 /\ ~FallbackStartDate(request, today).valid

\* TripplanCurator.planFallback
planFallback(request, today) ==
    LET startDate == FallbackStartDate(request, today)
        auroraViewing == Get(request.aurora, "level") \in {JStr("high"), JStr("extreme")}
        count == IF request.duration < 0 THEN 0 ELSE request.duration
        day(i) ==
            JObj([date |-> JStr(IsoDay(SetDatePlus(startDate, i))),
                  theme |-> JStr(IF auroraViewing THEN "Aurora & Arctic Experience"
                                                   ELSE "Arctic Discovery"),
                  activities |-> JArr(<<FallbackSlot("09:00-11:00", "d1"),
                                        FallbackSlot("12:30-14:00", "f1"),
                                        FallbackSlot("15:00-17:30", "d2")>>
                                      \o (IF auroraViewing
                                          THEN <<FallbackSlot("20:00-02:00", "a1")>>
                                          ELSE <<>>)),
                  auroraTime |-> IF auroraViewing THEN JStr("21:00-02:00") ELSE JUndef,
                  auroraViewing |-> JBool(auroraViewing),
                  totalCost |-> JNum(600), dayRating |-> JNum(8)])
    IN  JObj([title |-> JStr(ToString(request.duration) \o "-Day Tromso Arctic Adventure"),
              summary |-> JStr("An " \o ToString(request.duration)
                               \o "-day journey through Arctic Tromso featuring "
                               \o Join(request.interests.a, ", ") \o ". "
                               \o (IF request.auroraViewing
                                   THEN "Evening aurora viewing opportunities included."
                                   ELSE "")),
              days |-> JArr([i \in 1..count |-> day(i - 1)]),
              totalCost |-> JNum(600 * request.duration),
              highlights |-> JArr(<<JStr("Aurora viewing (weather dependent)"),
                                    JStr("Arctic attractions and culture"),
                                    JStr("Local experiences"),
                                    JStr("Customized for your interests"),
                                    JStr("Includes transport guidance")>>),
              recommendations |-> JArr(<<JStr("Download Svipper app for real-time bus schedules"),
                                         JStr("Book tours 1-2 days in advance"),
                                         JStr("Wear layers - Arctic weather is unpredictable"),
                                         JStr("Bring a camera for aurora photos"),
                                         JStr("Check weather forecasts daily")>>),
              importantNotes |-> JArr(<<JStr("Aurora viewing subject to weather conditions"),
                                        JStr("Some attractions may have seasonal closures"),
                                        JStr("Prices are estimates and may vary"),
                                        JStr("Book accommodations early for peak season")>>)])

\* the promise planFallback returns: fulfilled with the plan or rejected
planFallbackCompletion(request, today, calls) ==
    IF planFallbackThrows(request, today) THEN Thrown(calls)
    ELSE Returned(planFallback(request, today), calls)

\* the input test of TripplanCurator.plan: true = null is returned before any AI call
PlanInputRejected(request) ==
    \/ request.duration < 1 \/ request.duration > 30
    \/ Len(request.interests.a) = 0

\* what aiCore.chat may do: the stub of core.ts answers { success: false };
\* an implementation of the AICore interface may answer with content, or reject
ChatStub      == [kind |-> "answer", success |-> FALSE, content |-> EmptyText]
ChatRejects   == [kind |-> "throws", success |-> FALSE, content |-> EmptyText]
ChatAnswers(content) == [kind |-> "answer", success |-> TRUE, content |-> content]

ChatOutcomes ==
    {ChatStub, ChatRejects, ChatAnswers(EmptyText), ChatAnswers(GarbageText),
     ChatAnswers(PlainText(CuratorBaseJson)),
     ChatAnswers(PlainText(CuratorJson(JStr(LongText(101)), JStr("A short trip"),
                                       JArr(<<CuratorDay(JStr("Aurora"), JStr("Bus 42"))>>),
                                       JUndef))),
     ChatAnswers(PlainText(CuratorJson(JNum(5), JStr("A short trip"), JArr(<<>>), JUndef)))}

\* TripplanCurator.plan after its await of aiCore.chat
planAfterChat(chat) ==
    IF chat.kind = "throws" THEN Thrown(1)
    ELSE IF ~chat.success \/ chat.content.form = "empty" THEN Returned(JNull, 1)
    ELSE Returned(parseResponse(chat.content).value, 1)

\* variant: the catch rethrows
createTripplan_rethrow(request, options, planned, today) ==
    IF planned.threw THEN Thrown(planned.calls)
    ELSE IF Truthy(planned.value) THEN planned
    ELSE IF Get(options, "useFallback") # JBool(FALSE)
    THEN planFallbackCompletion(request, today, planned.calls)
    ELSE Thrown(planned.calls)

\* createTripplan once curator.plan has settled as `planned`: the try block
\* returns the plan or the promise of planFallback, or throws into the catch,
\* which returns the promise of planFallback
createTripplan(request, options, planned, today) ==
    LET caught == planFallbackCompletion(request, today, planned.calls)
    IN  IF planned.threw THEN caught
        ELSE IF Truthy(planned.value) THEN planned
        ELSE IF Get(options, "useFallback") # JBool(FALSE)
        THEN planFallbackCompletion(request, today, planned.calls)
        ELSE caught

TripplanRequests ==
    [duration : {0, 1, 2, 31},
     startDate : {JUndef, JStr("2026-02-01"), JStr("2027-12-30"), JStr("next week")},
     interests : {JArr(<<JStr("aurora"), JStr("food")>>), JArr(<<>>)},
     budget : {"moderate"},
     travelers : {2},
     auroraViewing : BOOLEAN,
     aurora : {JUndef, JObj([level |-> JStr("high")]), JObj([level |-> JStr("low")])}]

TripplanOptions ==
    {JUndef, JObj([useFallback |-> JBool(TRUE)]), JObj([useFallback |-> JBool(FALSE)])}

NoRequest ==
    [duration |-> 0, startDate |-> JUndef, interests |-> JArr(<<>>), budget |-> "moderate",
     travelers |-> 2, auroraViewing |-> FALSE, aurora |-> JUndef]

CuratorIdle ==
    [pc |-> "idle", request |-> NoRequest, options |-> JUndef,
     planned |-> Returned(JUndef, 0), result |-> Returned(JUndef, 0)]

CuratorInit == curator = CuratorIdle

notCurator == <<coreVars, outbound, cache, hook, aurora, exported, parsers>>

\* createTripplan(request, options) up to the await inside curator.plan, or to
\* its end when plan returns null before calling the AI
CreateTripplanCall ==
    /\ curator.pc = "idle"
    /\ \E request \in TripplanRequests, options \in TripplanOptions :
         curator' =
            IF PlanInputRejected(request)
            THEN [pc |-> "settled", request |-> request, options |-> options,
                  planned |-> Returned(JNull, 0),
                  result |-> createTripplan(request, options, Returned(JNull, 0), Today(now))]
            ELSE [CuratorIdle EXCEPT !.pc = "awaitingChat", !.request = request,
                                     !.options = options]
    /\ UNCHANGED notCurator

\* aiCore.chat settles; plan and createTripplan run to their end
CuratorChatSettles ==
    /\ curator.pc = "awaitingChat"
    /\ \E chat \in ChatOutcomes :
         LET planned == planAfterChat(chat)
         IN  curator' = [curator EXCEPT
                 !.pc = "settled", !.planned = planned,
                 !.result = createTripplan(curator.request, curator.options, planned,
                                           Today(now))]
    /\ UNCHANGED notCurator

-----------------------------------------------------------------------------
(* Specifications *)

Init ==
    /\ GenInit /\ HttpInit /\ RulesInit /\ LimiterInit /\ SeasonInit
    /\ OutboundInit
    /\ CacheInit
    /\ HookInit
    /\ CuratorInit
    /\ AuroraInit
    /\ ExportInit
    /\ ParsersInit

\* season resolution on its own
SeasonNext == ResolveSeason

SpecSeason == Init /\ [][SeasonNext]_vars

\* the rule-based generator called directly while the clock runs
RulesNext == RulesCall \/ RulesCallAgain \/ RulesDone \/ Tick

SpecRules == Init /\ [][RulesNext]_vars

\* the middleware in front of the routes
RateNext == Middleware \/ RateTick

SpecRate == Init /\ [][RateNext]_vars

\* generateTripPlan called directly, over every provider outcome
GenNext == GenInvoke \/ GenAttemptAI \/ GenReturnAI \/ GenFallback \/ GenSettle

SpecGen == Init /\ [][GenNext]_vars

\* the routes over the store and the clock
Next ==
    \/ PostValidate \/ GenAttemptAI \/ GenReturnAI \/ GenFallback
    \/ PostGenerationFailed \/ PostPersist
    \/ GetShared \/ GetById \/ Tick

Spec == Init /\ [][Next]_vars

\* the restaurant integrations on their own
OutboundNext == OutboundCall \/ OutboundTimerFires \/ OutboundTick

SpecOutbound == Init /\ [][OutboundNext]_vars

\* the company client on its own
CacheNext ==
    \/ CachedCall \/ CachedFetchSettles \/ ClearCache
    \/ BackendFlips \/ CacheTick

SpecCache == Init /\ [][CacheNext]_vars

\* the aurora analysis by rules on its own
AuroraNext == AnalyzeFallback

SpecAurora == Init /\ [][AuroraNext]_vars

\* the hook on its own
HookNext ==
    \/ HookUpdatePreferences \/ HookGeneratePlan \/ HookRequestSucceeds
    \/ HookRequestFails \/ HookResetPlanner

SpecHook == Init /\ [][HookNext]_vars

\* the calendar export of rule-based plans on its own
ExportNext == ExportRulePlan

SpecExport == Init /\ [][ExportNext]_vars

\* the two response parsers on their own
ParsersNext == ParseCuratorResponse \/ ParseOpenAIResponse

SpecParsers == Init /\ [][ParsersNext]_vars

\* createTripplan on its own
CuratorNext == CreateTripplanCall \/ CuratorChatSettles

SpecCurator == Init /\ [][CuratorNext]_vars

-----------------------------------------------------------------------------
(* Properties of generateTripPlan *)

PlanDays(plan) == Get(plan, "days").a

\* the generation in progress was handed a real calendar day
WellFormedInput == genInput.startDate.valid

\* C1: for well-formed input generateTripPlan never rejects, whatever the
\* provider did (no credential, failed call, empty, unparseable or invalid
\* answer, valid plan), and what it resolves to is a plan object, never
\* null/undefined.
C1_AlwaysResolvesToPlan ==
    /\ WellFormedInput => genPc # "threw"
    /\ genPc = "returned" => genResult.t = "object"

C1_Witness_FallbackAfterProviderFailure ==
    /\ genPc = "returned"
    /\ provider.kind = "throws"
    /\ genResult.t = "object"
    /\ ruleCalls = 1

\* C2: the returned plan has exactly preferences.days day entries, numbered
\* 1, 2, ... in order.  (Stated as the claim reads; the AI path breaks it.)
C2_ExactlyRequestedDays ==
    genPc = "returned" =>
        /\ Len(PlanDays(genResult)) = Get(genInput.preferences, "days").n
        /\ \A i \in 1..Len(PlanDays(genResult)) :
               Get(PlanDays(genResult)[i], "day") = JNum(i)

\* C3: totalCost of the returned plan is the sum of the costs of all
\* activities of all its days.  (Stated as the claim reads; the AI path breaks it.)
C3_TotalCostIsSum ==
    genPc = "returned" =>
        Get(genResult, "totalCost") = JNum(SumDayCosts(PlanDays(genResult)))

\* C4: one invocation calls the AI generator exactly once; a non-null AI plan
\* is returned as it is and the rule-based generator is not called; after a
\* null (or a failed provider call) the rule-based generator is called exactly
\* once and its plan is returned.
C4_OneAttemptThenFallback ==
    /\ aiCalls <= 1 /\ ruleCalls <= 1
    /\ genPc \in {"ai_done", "returned"} => aiCalls = 1
    /\ genPc = "ai_done" => ruleCalls = 0
    /\ genPc = "returned" =>
         IF aiPlan # JNull
         THEN ruleCalls = 0 /\ genResult = aiPlan
         ELSE /\ ruleCalls = 1
              /\ genResult = generatePlanWithRules(genInput.preferences, genInput.season,
                                                   genInput.startDate)

C4_Witness_AiPlanReturnedWithoutFallback ==
    /\ genPc = "returned"
    /\ aiPlan # JNull
    /\ genResult = aiPlan
    /\ aiCalls = 1
    /\ ruleCalls = 0

-----------------------------------------------------------------------------
(* Properties of the routes *)

\* a step that completes an exchange of the given route
Answered(op) == resp' # resp /\ resp'.op = op

IsStoredId(key)      == \E i \in 1..Len(store) : store[i].id = key
IsStoredShare(key)   == \E i \in 1..Len(store) : store[i].shareableId = key
RowOfShare(key)      == store[CHOOSE i \in 1..Len(store) : store[i].shareableId = key]
RowOfId(key)         == store[CHOOSE i \in 1..Len(store) : store[i].id = key]

\* preferences the claim calls invalid: days a number outside 1..14, or
\* interests that is not an array or is an empty one
DaysOrInterestsInvalid(preferences) ==
    /\ preferences.t = "object"
    /\ \/ /\ Get(preferences, "days").t = "number"
          /\ Get(preferences, "days").n \notin 1..14
       \/ Get(preferences, "interests").t # "array"
       \/ Get(preferences, "interests") = JArr(<<>>)

C6_ShareLookupStatus ==
    [][ Answered("GET_share") =>
          LET key == resp'.key
              status == resp'.status
          IN /\ status \in {200, 404, 410, 500}
             /\ status = 404 => ~IsStoredShare(key)
             /\ status = 410 => IsStoredShare(key) /\ RowOfShare(key).expiresAt < now
             /\ status = 200 => /\ IsStoredShare(key)
                                /\ resp'.row = RowOfShare(key)
                                /\ now <= RowOfShare(key).expiresAt
             /\ status # 500 =>
                  /\ (IsStoredShare(key) /\ now < RowOfShare(key).expiresAt) => status = 200
                  /\ (IsStoredShare(key) /\ now > RowOfShare(key).expiresAt) => status = 410
                  /\ ~IsStoredShare(key) => status = 404
      ]_vars

C6_Witness_ExpiredRowReported410 ==
    /\ resp.op = "GET_share"
    /\ resp.status = 410
    /\ IsStoredShare(resp.key)
    /\ RowOfShare(resp.key).expiresAt < resp.at

\* C7: GET /trips/{id} never enforces expiration: whenever the store answers
\* the query, a stored row gives 200 with that row, before and after its
\* expiresAt, and 404 is given only when no row has that id; 410 is never given.
C7_ByIdIgnoresExpiry ==
    [][ Answered("GET_id") =>
          LET key == resp'.key
              status == resp'.status
          IN /\ status \in {200, 404, 500}
             /\ status = 404 => ~IsStoredId(key)
             /\ status = 200 => IsStoredId(key) /\ resp'.row = RowOfId(key)
             /\ status # 500 => (IsStoredId(key) <=> status = 200)
      ]_vars

C7_Witness_ExpiredRowStillServed ==
    /\ resp.op = "GET_id"
    /\ resp.status = 200
    /\ resp.row.expiresAt < resp.at
    /\ resp.row.id = resp.key

\* C8: every stored row has expiresAt = its creation time + 7 days
\* (604 800 000 ms), and no step changes the expiresAt of a stored row.
C8_ExpiresSevenDaysAfterCreation ==
    [][ /\ \A i \in 1..Len(store') : store'[i].expiresAt = store'[i].createdAt + 604800000
        /\ Len(store') >= Len(store)
        /\ \A i \in 1..Len(store) : store'[i].expiresAt = store[i].expiresAt
      ]_vars

C8_Witness_RowCreatedLaterThanStart ==
    /\ Len(store) = 2
    /\ store[2].createdAt > store[1].createdAt
    /\ store[2].expiresAt = store[2].createdAt + 604800000
    /\ now > store[2].createdAt

\* C9: stored rows are insert-only: no step changes or removes a stored row,
\* and a step answering either GET leaves the whole store as it was, also
\* when the row is reported expired.
C9_StoreInsertOnly ==
    [][ /\ Len(store') >= Len(store)
        /\ \A i \in 1..Len(store) : store'[i] = store[i]
        /\ (Answered("GET_id") \/ Answered("GET_share")) => store' = store
      ]_vars

C9_Witness_ExpiredRowKeptAmongOthers ==
    /\ resp.op = "GET_share"
    /\ resp.status = 410
    /\ Len(store) >= 2
    /\ \E i \in 1..Len(store) : store[i].shareableId = resp.key /\ store[i].plan.t = "object"

\* C10: when the insert fails after generation resolved, POST still answers
\* 201 with the generated plan, and the failure is written to the error log;
\* a POST whose generation resolved is never answered 500.
C10_PlanReturnedWhenInsertFails ==
    [][ (Answered("POST") /\ genPc = "returned") =>
          /\ resp'.status = 201
          /\ resp'.plan = genResult
          /\ resp'.plan.t = "object"
          /\ store' = store => /\ ~resp'.persisted
                               /\ persistErrorsLogged' = persistErrorsLogged + 1
          /\ store' # store => persistErrorsLogged' = persistErrorsLogged
      ]_vars

C10_Witness_CreatedWithoutRow ==
    /\ resp.op = "POST"
    /\ resp.status = 201
    /\ ~resp.persisted
    /\ resp.plan.t = "object"
    /\ persistErrorsLogged = 1
    /\ ~IsStoredId(resp.key)

\* a plan with all six top-level fields
CompletePlan(plan) ==
    /\ plan.t = "object"
    /\ \A f \in {"summary", "days", "totalCost", "safetyNotes", "packingList",
                  "recommendations"} : Get(plan, f) # JUndef

\* C11: a POST step changes the store only by appending one row, only when
\* generateTripPlan has returned a complete plan, and the row's plan is that
\* plan and the plan of the 201 answer; a POST answered 400 or 500 (failed
\* validation, generation that threw) and every step taken while generation
\* has not returned leave the store as it was.
C11_InsertOnlyAfterGeneration ==
    [][ /\ store' # store =>
              /\ genPc = "returned" /\ genCaller = "POST"
              /\ CompletePlan(genResult)
              /\ Len(store') = Len(store) + 1
              /\ SubSeq(store', 1, Len(store)) = store
              /\ store'[Len(store')].plan = genResult
              /\ Answered("POST")
              /\ resp'.status = 201
              /\ resp'.plan = store'[Len(store')].plan
              /\ resp'.key = store'[Len(store')].id
        /\ (Answered("POST") /\ resp'.status \in {400, 500}) => store' = store
        /\ (post.pc = "generating" /\ genPc # "returned") => store' = store
      ]_vars

C11_Witness_StoredPlanIsAnsweredPlan ==
    /\ resp.op = "POST"
    /\ resp.status = 201
    /\ resp.persisted
    /\ Len(store) >= 1
    /\ store[Len(store)].id = resp.key
    /\ store[Len(store)].plan = resp.plan
    /\ CompletePlan(resp.plan)

-----------------------------------------------------------------------------
(* Properties of the AI path *)

\* the JSON value the provider answered with, when it answered with JSON
ProviderSentJson == provider.kind = "text" /\ provider.text.json
SentValue == provider.text.value

\* C12: callOpenAIForTripPlan never throws, and it gives null when the
\* credential is missing (then without a provider request), when the
\* provider call fails, when the answer is empty and when the answer is not
\* JSON.
C12_AiCallNeverThrows ==
    genPc \in {"ai_done", "returned"} =>
        /\ ~aiTrace.threw
        /\ provider.kind = "no_key" => aiPlan = JNull /\ aiTrace.providerCalls = 0
        /\ provider.kind = "throws" => aiPlan = JNull
        /\ (provider.kind = "text" /\ provider.text.form = "empty") => aiPlan = JNull
        /\ (provider.kind = "text" /\ ~provider.text.json) => aiPlan = JNull

C12_Witness_ProviderFailureGivesNull ==
    /\ genPc = "ai_done"
    /\ provider.kind = "throws"
    /\ aiTrace.providerCalls = 1
    /\ ~aiTrace.threw
    /\ aiPlan = JNull

\* C13: a plan comes back from the AI path only if summary is a string, days
\* is a non-empty array, totalCost is a number and safetyNotes, packingList
\* and recommendations are arrays.  (Stated as the claim reads; the test of
\* parseOpenAIResponse lets an empty days and a non-string summary pass.)
C13_TopLevelFieldsTyped ==
    (genPc \in {"ai_done", "returned"} /\ aiPlan # JNull) =>
        /\ Get(aiPlan, "summary").t = "string"
        /\ Get(aiPlan, "days").t = "array"
        /\ Len(Get(aiPlan, "days").a) > 0
        /\ Get(aiPlan, "totalCost").t = "number"
        /\ Get(aiPlan, "safetyNotes").t = "array"
        /\ Get(aiPlan, "packingList").t = "array"
        /\ Get(aiPlan, "recommendations").t = "array"

\* a day entry with a numeric day, a string date, a string theme, an array
\* activities and a dining object
DayEntryTyped(day) ==
    /\ day.t = "object"
    /\ Get(day, "day").t = "number"
    /\ Get(day, "date").t = "string"
    /\ Get(day, "theme").t = "string"
    /\ Get(day, "activities").t = "array"
    /\ Get(day, "dining").t = "object"

\* C14: when one day entry of the answer lacks a numeric day, a string date,
\* a string theme, an array activities or a dining object, the AI path gives
\* null and generateTripPlan returns the rule-based plan.  (Stated as the
\* claim reads; a day whose dining is a text passes the test.)
C14_OneBadDayRejectsAnswer ==
    (/\ genPc \in {"ai_done", "returned"}
     /\ ProviderSentJson
     /\ SentValue.t = "object"
     /\ Get(SentValue, "days").t = "array"
     /\ \E i \in 1..Len(Get(SentValue, "days").a) :
            ~DayEntryTyped(Get(SentValue, "days").a[i]))
    => /\ aiPlan = JNull
       /\ genPc = "returned" =>
             genResult = generatePlanWithRules(genInput.preferences, genInput.season,
                                               genInput.startDate)

-----------------------------------------------------------------------------
(* Properties of season resolution and of the rule-based generator *)

\* C15: the season is decided by the calendar month alone: 5-8 summer, 11 and
\* 1 polar-night, 12 and 2 winter, 3, 4, 9 and 10 winter; every date gets one
\* of the three seasons.
C15_SeasonByMonth ==
    resolved.season # "none" =>
        /\ resolved.season \in {"summer", "winter", "polar-night"}
        /\ resolved.date.valid =>
              /\ resolved.date.m \in {5, 6, 7, 8} => resolved.season = "summer"
              /\ resolved.date.m \in {11, 1} => resolved.season = "polar-night"
              /\ resolved.date.m \in {12, 2} => resolved.season = "winter"
              /\ resolved.date.m \in {3, 4, 9, 10} => resolved.season = "winter"

C15_Witness_NovemberIsPolarNight ==
    /\ resolved.date.valid
    /\ resolved.date.m = 11
    /\ resolved.date.d = 28
    /\ resolved.season = "polar-night"

\* the plan of the first direct call of the rule-based generator
RulesReturned == rules.pc # "idle" /\ ~rules.first.threw
RulesPlan == rules.first.value

\* C16: in a plan of the rule-based generator every day has an aurora
\* sub-record when the season is winter or polar-night, and no day has one
\* when the season is summer.
C16_AuroraIffDarkSeason ==
    RulesReturned =>
        \A i \in 1..Len(PlanDays(RulesPlan)) :
            (Get(PlanDays(RulesPlan)[i], "aurora") # JUndef)
                <=> (rules.input.season \in {"winter", "polar-night"})

C16_Witness_PolarNightDaysHaveAurora ==
    /\ RulesReturned
    /\ rules.input.season = "polar-night"
    /\ Len(PlanDays(RulesPlan)) >= 2
    /\ \A i \in 1..Len(PlanDays(RulesPlan)) :
           Get(PlanDays(RulesPlan)[i], "aurora").t = "object"

RECURSIVE DaysBeforeMonth(_, _)
DaysBeforeMonth(y, m) ==
    IF m = 1 THEN 0 ELSE DaysInMonth(y, m - 1) + DaysBeforeMonth(y, m - 1)

Ordinal(date) ==
    (date.y - 2026) * 365 + Cardinality({yy \in 2026..(date.y - 1) : IsLeap(yy)})
    + DaysBeforeMonth(date.y, date.m) + date.d

\* the calendar day i days after start, for i below four weeks
DayAfter(start, i) ==
    CHOOSE date \in {MkDate(y, m, d) : y \in {start.y, start.y + 1},
                                        m \in {start.m, (start.m % 12) + 1},
                                        d \in 1..31} :
        /\ date.d <= DaysInMonth(date.y, date.m)
        /\ Ordinal(date) = Ordinal(start) + i

-----------------------------------------------------------------------------
(* Properties of the rate-limiting middleware *)

\* a step in which the middleware answered a request to a rate-limited route
\* of a client it could identify
Limited == /\ limiter'.served # limiter.served
           /\ limiter'.last.status \in {200, 429}
           /\ limiter'.last.route # "GET /api/trips"

\* C19: a client that has made fewer than 10 POST /api/trips requests in the
\* current hour is not answered 429 on POST /api/trips, whatever it sent to
\* the other routes.  (Stated as the claim reads; the counter is shared.)
C19_QuotaPerEndpoint ==
    [][ (/\ Limited
         /\ limiter'.last.route = "POST /api/trips"
         /\ limiter'.traffic[limiter'.last.clientIp].posts <= 10)
        => limiter'.last.status # 429 ]_vars

\* C20: for one identifier, among the requests of one window (from the
\* request that opened it until one hour later) those up to the limit are
\* allowed and every further one is answered 429 with remaining 0; a request
\* inside the window leaves resetTime as the opening request set it; the
\* first request after the window is allowed and starts a window with count 1.
C20_FixedWindowCounts ==
    [][ Limited =>
          LET ip     == limiter'.last.clientIp
              limit  == LimitConfigFor(limiter'.last.route).limit
              before == limiter.traffic[ip]
              after  == limiter'.traffic[ip]
              inside == before.made > 0 /\ now <= before.opened + 3600000
          IN /\ (limiter'.last.status = 200) <=> (after.made <= limit)
             /\ limiter'.last.status = 429 => limiter'.last.remaining = 0
             /\ limiter'.last.status = 200 => limiter'.last.remaining = limit - after.made
             /\ inside =>
                   /\ limiter'.inMemoryStore[ip].resetTime = before.opened + 3600000
                   /\ limiter'.inMemoryStore[ip].resetTime = limiter.inMemoryStore[ip].resetTime
                   /\ limiter'.inMemoryStore[ip].count = limiter.inMemoryStore[ip].count + 1
             /\ ~inside =>
                   /\ limiter'.last.status = 200
                   /\ limiter'.inMemoryStore[ip] = [count |-> 1, resetTime |-> now + 3600000]
      ]_vars

C20_Witness_EleventhPostRejected ==
    /\ limiter.last.status = 429
    /\ limiter.last.route = "POST /api/trips"
    /\ limiter.last.remaining = 0
    /\ limiter.traffic[limiter.last.clientIp].posts = 11
    /\ limiter.traffic[limiter.last.clientIp].made = 11
    /\ limiter.last.at = limiter.inMemoryStore[limiter.last.clientIp].resetTime

-----------------------------------------------------------------------------
(* Properties of the restaurant integrations *)

\* C21: two requests sent to the same platform are at least REQUEST_DELAY_MS
\* apart, whatever the interleaving of the calls going through enforceRateLimit
C21_RequestsSpacedPerPlatform ==
    \A i, j \in DOMAIN outbound.sent :
        (i < j /\ outbound.sent[i].platform = outbound.sent[j].platform)
            => outbound.sent[j].at - outbound.sent[i].at >= REQUEST_DELAY_MS

-----------------------------------------------------------------------------
(* Properties of the company client *)

Started(c) == cache.calls[c].pc # "idle"

\* a call that returned without contacting the backend saw an entry stored under
\* its own key, younger than CACHE_TTL, and returned that entry's data
HitsAreFresh ==
    \A c \in CacheCalls :
        (Started(c) /\ ~cache.calls[c].fetched) =>
            LET call == cache.calls[c]
            IN  /\ call.pc = "done"
                /\ call.seen.present
                /\ call.seen.key = call.key
                /\ call.startedAt - call.seen.timestamp < 5 * 60 * 1000
                /\ call.result = call.seen.data

\* a call that contacted the backend had no entry for its key younger than
\* CACHE_TTL, and when its fetch settles the entry of its key is replaced by
\* the data it returns, stamped with the current time
MissesFetchAndReplace ==
    \A c \in CacheCalls :
        /\ (cache.calls[c].pc = "idle" /\ cache'.calls[c].pc = "fetching") =>
              /\ cache'.fetches = cache.fetches + 1
              /\ LET cached == cache.companiesCache[cache'.calls[c].key]
                 IN  ~cached.present \/ cache.clock - cached.timestamp >= 5 * 60 * 1000
        /\ (cache.calls[c].pc = "fetching" /\ cache'.calls[c].pc = "done") =>
              LET entry == cache'.companiesCache[cache.calls[c].key]
              IN  /\ entry.present
                  /\ entry.data = cache'.calls[c].result
                  /\ entry.timestamp = cache.clock
                  /\ cache'.calls[c].result \in {<<>>, BackendCompanies(cache.calls[c].key, cache.clock)}

\* C22 as claimed: cached data is returned only under the same key and while the
\* entry is younger than 5 minutes, otherwise fresh data is fetched and replaces
\* the entry; and after clearCompaniesCache the next call for every key fetches
C22_CacheByKeyAndAge ==
    /\ []HitsAreFresh
    /\ [][MissesFetchAndReplace]_vars
    /\ [](\A c \in CacheCalls :
            (Started(c) /\ cache.calls[c].firstSinceClear) => cache.calls[c].fetched)

\* C22, amended: as claimed, except that after clearCompaniesCache the next call
\* for a key fetches unless a fetch that was already in flight when the cache was
\* cleared has stored its result for that key since
C22_CacheByKeyAndAge_UnlessRefilledInFlight ==
    /\ []HitsAreFresh
    /\ [][MissesFetchAndReplace]_vars
    /\ [](\A c \in CacheCalls :
            (Started(c) /\ cache.calls[c].firstSinceClear /\ ~cache.calls[c].fetched) =>
                /\ cache.calls[c].seen.startEpoch < cache.calls[c].epoch
                /\ cache.calls[c].seen.storedEpoch = cache.calls[c].epoch)

\* the first call after a clear is served from an entry that a fetch in flight
\* at the clear stored afterwards
C22_Witness_InFlightFetchRefillsClearedCache ==
    \E c \in CacheCalls :
        /\ cache.calls[c].pc = "done"
        /\ cache.calls[c].firstSinceClear
        /\ ~cache.calls[c].fetched
        /\ cache.calls[c].seen.storedEpoch = cache.calls[c].epoch

-----------------------------------------------------------------------------
(* Properties of the rule-based day plans *)

\* time, title and cost of the activities of a day, in order
Agenda(day) ==
    [i \in 1..Len(Get(day, "activities").a) |->
        LET activity == Get(day, "activities").a[i]
        IN  <<Get(activity, "time").s, Get(activity, "title").s, Get(activity, "cost").n>>]

\* C23: the activities of every day of a rule-based plan are exactly, in this
\* order: the Fjellheisen morning activity (10:00, cost 200) if and only if it
\* is day 1; one 14:30 activity, the Fjord Cruise (800) in summer and the
\* cathedral visit (100) otherwise; the 21:00 aurora chase (1200) if and only if
\* the season is winter or polar-night, and then the day's aurora probability is 65
C23_DayActivitiesBySeasonAndDay ==
    RulesReturned =>
        \A i \in 1..Len(PlanDays(RulesPlan)) :
            LET day  == PlanDays(RulesPlan)[i]
                dark == rules.input.season \in {"winter", "polar-night"}
            IN  /\ Agenda(day) =
                       (IF Get(day, "day").n = 1
                        THEN << <<"10:00", "Fjellheisen Cable Car", 200>> >> ELSE <<>>)
                       \o (IF rules.input.season = "summer"
                           THEN << <<"14:30", "Fjord Cruise", 800>> >>
                           ELSE << <<"14:30", "Ishavskatedralen Visit", 100>> >>)
                       \o (IF dark THEN << <<"21:00", "Northern Lights Chase", 1200>> >>
                                   ELSE <<>>)
                /\ dark => Get(Get(day, "aurora"), "probability") = JNum(65)

\* a winter plan of three days: three activities on day 1, two on the others
C23_Witness_WinterPlanOfThreeDays ==
    /\ RulesReturned
    /\ rules.input.season = "winter"
    /\ Len(PlanDays(RulesPlan)) = 3
    /\ Len(Agenda(PlanDays(RulesPlan)[1])) = 3
    /\ Len(Agenda(PlanDays(RulesPlan)[3])) = 2

-----------------------------------------------------------------------------
(* Properties of the aurora analysis *)

\* C25: analyzeFallback gives every integer score 0..100 the level of the
\* documented scoring rules: 0-25 low, 26-50 medium, 51-75 high, 76-100 extreme
C25_LevelFollowsScoringRules ==
    (aurora.called /\ aurora.score \in 0..100) =>
        aurora.level = CASE aurora.score <= 25 -> "low"
                         [] aurora.score <= 50 -> "medium"
                         [] aurora.score <= 75 -> "high"
                         [] OTHER              -> "extreme"

-----------------------------------------------------------------------------
(* Properties of the identifiers handed out by POST /api/trips *)

\* C26: the id and shareableId of every 201 answer of POST /api/trips are
\* those of one stored row holding the answered plan (rows are never removed,
\* so lookups by them succeed until the row expires), also when the insert failed
C26_CreatedIdsAreStored ==
    (resp.op = "POST" /\ resp.status = 201) =>
        \E i \in 1..Len(store) :
            /\ store[i].id = resp.row.id
            /\ store[i].shareableId = resp.row.shareableId
            /\ store[i].plan = resp.plan

-----------------------------------------------------------------------------
(* Properties of the useTripPlanner hook *)

\* C27: loading is true exactly while a request is in flight: generatePlan with
\* invalid preferences sets error and sends nothing; loading is never false
\* while a request is pending, never true without one, and when the last
\* pending request settles loading is false with plan set and error null, or
\* with error set
C27_LoadingWhileInFlight ==
    /\ [][(hook' # hook /\ hook'.last = "generatePlan"
              /\ (~Truthy(Get(hook.preferences, "interests"))
                     \/ Get(hook.preferences, "interests").a = <<>>
                     \/ Get(hook.preferences, "days").n \notin 1..14)) =>
             (hook'.error.t = "string" /\ hook'.pending = hook.pending)]_vars
    /\ [](hook.pending > 0 => hook.loading)
    /\ [](hook.loading => hook.pending > 0)
    /\ [][(hook' # hook /\ hook'.last = "settled" /\ hook'.pending = 0) =>
             /\ ~hook'.loading
             /\ \/ hook'.plan # JNull /\ hook'.error = JNull
                \/ hook'.error # JNull]_vars

-----------------------------------------------------------------------------
(* Properties of the calendar export *)

\* C29: every event that generateICS emits for a plan of the rule-based
\* generator ends after it starts: DTEND is a later instant than DTSTART
C29_EventsEndAfterStart ==
    exported.called =>
        \A i \in 1..Len(exported.events) :
            LET event == exported.events[i]
            IN  \/ Ordinal(event.endDate.day) > Ordinal(event.startDate.day)
                \/ /\ event.endDate.day = event.startDate.day
                   /\ event.endDate.minute > event.startDate.minute

-----------------------------------------------------------------------------
(* Properties of the response parsers *)

TextLen(v) == IF v.t = "string" THEN Len(v.s) ELSE 0

Items(v) == IF v.t = "array" THEN v.a ELSE <<>>

Prefix(v, n) == SubSeq(v.s, 1, IF Len(v.s) < n THEN Len(v.s) ELSE n)

\* the text fields of a plan of TripplanCurator.parseResponse are within their maxima
CuratorFieldsBounded(plan) ==
    /\ TextLen(Get(plan, "title")) <= 100
    /\ TextLen(Get(plan, "summary")) <= 300
    /\ \A i \in 1..Len(Items(Get(plan, "days"))) :
         LET day == Items(Get(plan, "days"))[i]
         IN  /\ TextLen(Get(day, "theme")) <= 50
             /\ TextLen(Get(day, "auroraTime")) <= 20
             /\ \A j \in 1..Len(Items(Get(day, "activities"))) :
                  LET a == Items(Get(day, "activities"))[j]
                  IN  /\ TextLen(Get(a, "time")) <= 20
                      /\ TextLen(Get(a, "activity")) <= 100
                      /\ TextLen(Get(a, "notes")) <= 200
    /\ \A i \in 1..Len(Items(Get(plan, "highlights"))) :
         TextLen(Items(Get(plan, "highlights"))[i]) <= 100
    /\ \A i \in 1..Len(Items(Get(plan, "recommendations"))) :
         TextLen(Items(Get(plan, "recommendations"))[i]) <= 150
    /\ \A i \in 1..Len(Items(Get(plan, "importantNotes"))) :
         TextLen(Items(Get(plan, "importantNotes"))[i]) <= 150

\* the same maxima applied to the text fields of a plan of parseOpenAIResponse
OpenAiFieldsBounded(plan) ==
    /\ TextLen(Get(plan, "summary")) <= 300
    /\ \A i \in 1..Len(Items(Get(plan, "days"))) :
         LET day == Items(Get(plan, "days"))[i]
         IN  /\ TextLen(Get(day, "theme")) <= 50
             /\ \A j \in 1..Len(Items(Get(day, "activities"))) :
                  LET a == Items(Get(day, "activities"))[j]
                  IN  /\ TextLen(Get(a, "title")) <= 100
                      /\ TextLen(Get(a, "description")) <= 200

\* a curator answer that is of the right types throughout, whatever its lengths
WellTypedCuratorJson(json) ==
    /\ json.t = "object"
    /\ TextLen(Get(json, "title")) > 0
    /\ TextLen(Get(json, "summary")) > 0
    /\ Len(Items(Get(json, "days"))) > 0
    /\ \A i \in 1..Len(Items(Get(json, "days"))) :
         LET day == Items(Get(json, "days"))[i]
         IN  /\ day.t = "object"
             /\ Get(day, "theme").t \in {"string", "undefined"}
             /\ Get(day, "auroraTime").t \in {"string", "undefined"}
             /\ Get(day, "activities").t = "array"
             /\ \A j \in 1..Len(Items(Get(day, "activities"))) :
                  LET a == Items(Get(day, "activities"))[j]
                  IN  /\ a.t = "object"
                      /\ \A f \in {"time", "activity", "notes"} :
                           Get(a, f).t \in {"string", "undefined"}
    /\ \A f \in {"highlights", "recommendations", "importantNotes"} :
         Get(json, f).t \in {"array", "undefined"}

\* an oversized title or summary is cut to its maximum and the answer is accepted
CuratorTruncates ==
    (parsers.parser = "parseResponse" /\ parsers.content.form = "plain"
        /\ parsers.content.json /\ WellTypedCuratorJson(parsers.content.value)) =>
        /\ parsers.result # JNull
        /\ Get(parsers.result, "title").s = Prefix(Get(parsers.content.value, "title"), 100)
        /\ Get(parsers.result, "summary").s = Prefix(Get(parsers.content.value, "summary"), 300)

\* C24 as claimed: every plan accepted from AI output, by parseOpenAIResponse and
\* by TripplanCurator.parseResponse, has its text fields within fixed maxima, and
\* an oversized field is cut to its maximum instead of the answer being rejected
C24_AcceptedTextIsClamped ==
    /\ (parsers.parser = "parseResponse" /\ parsers.result # JNull)
           => CuratorFieldsBounded(parsers.result)
    /\ CuratorTruncates
    /\ (parsers.parser = "parseOpenAIResponse" /\ parsers.result # JNull)
           => OpenAiFieldsBounded(parsers.result)

\* C24, amended: every plan accepted by TripplanCurator.parseResponse has its
\* text fields within the fixed maxima (title 100, summary 300, theme 50, time
\* and auroraTime 20, activity 100, notes 200, highlights 100, recommendations
\* and importantNotes 150), oversized fields being cut and not rejected;
\* parseOpenAIResponse returns the plan it accepts unchanged, whatever its lengths
C24_CuratorClampsOpenAiVerbatim ==
    /\ (parsers.parser = "parseResponse" /\ parsers.result # JNull)
           => CuratorFieldsBounded(parsers.result)
    /\ CuratorTruncates
    /\ (parsers.parser = "parseOpenAIResponse" /\ parsers.result # JNull)
           => parsers.result = parsers.content.value

\* an answer with a title of 101 and a summary of 301 characters was accepted
\* with 100 and 300 of them
C24_Witness_OversizedTitleCut ==
    /\ parsers.parser = "parseResponse"
    /\ TextLen(Get(parsers.content.value, "title")) = 101
    /\ TextLen(Get(parsers.content.value, "summary")) = 301
    /\ parsers.result # JNull
    /\ TextLen(Get(parsers.result, "title")) = 100
    /\ TextLen(Get(parsers.result, "summary")) = 300

-----------------------------------------------------------------------------
(* Properties of createTripplan *)

\* startDate is absent or names a calendar day
WellFormedRequest(request) ==
    \/ request.startDate = JUndef
    \/ /\ Len(request.startDate.s) = 10
       /\ NumberOfDigits(SubSeq(request.startDate.s, 6, 7)) \in 1..12
       /\ NumberOfDigits(SubSeq(request.startDate.s, 9, 10)) \in 1..28

\* C28: for a well-formed request createTripplan resolves to a TripPlan and
\* never rejects, whatever the AI did and whatever options.useFallback is: the
\* plan of the AI when it gave one, and otherwise the plan of planFallback
C28_CreateTripplanAlwaysResolves ==
    (curator.pc = "settled" /\ WellFormedRequest(curator.request)) =>
        /\ ~curator.result.threw
        /\ curator.result.value.t = "object"
        /\ Get(curator.result.value, "title").t = "string"
        /\ Get(curator.result.value, "days").t = "array"
        /\ IF ~curator.planned.threw /\ curator.planned.value.t = "object"
           THEN curator.result.value = curator.planned.value
           ELSE /\ Get(curator.result.value, "title").s =
                       ToString(curator.request.duration) \o "-Day Tromso Arctic Adventure"
                /\ Len(Get(curator.result.value, "days").a) = curator.request.duration
                /\ Get(curator.result.value, "totalCost").n = 600 * curator.request.duration

\* the AI gave no plan, useFallback was false, and the fallback plan came back
C28_Witness_FallbackAlthoughDisabled ==
    /\ curator.pc = "settled"
    /\ curator.options = JObj([useFallback |-> JBool(FALSE)])
    /\ curator.planned = Returned(JNull, 1)
    /\ ~curator.result.threw
    /\ Len(Get(curator.result.value, "days").a) = 2
    /\ Get(Get(curator.result.value, "days").a[2], "date") = JStr("2027-12-31")

====
